---- MODULE Spec2Model ----
(***************************************************************************)
(* Model of the antenna server room runtime (antenna-server/src/room).     *)
(* The Room actor owns the per-peer transports and the shared              *)
(* peer -> data-channel map, receives RoomCommands on command_rx and       *)
(* TransportEvents on transport_rx, and calls the RoomBehavior hooks and   *)
(* the SignalingOutput.  The transports (ConnectionWrapper callbacks) and  *)
(* the producers of commands are the environment.                          *)
(* The socket sessions (signaling/ws_handler.rs) with the SignalingService *)
(* map of writers, and the RoomManager (room/room_manager.rs), have their  *)
(* own specifications over the same state.                                 *)
(***************************************************************************)
EXTENDS Integers, Sequences, FiniteSets, TLC

\* ---------------------------------------------------------------- bounds
MaxPeers == 2
MaxTransports == 2
MaxCmds == 3
MaxEvts == 3
MaxInputs == 6
MaxSessions == 2
MaxFrames == 2
MaxSignals == 1
MaxSessionInputs == 3
MaxJointInputs == 5
MaxJointFrames == 3
MaxRoomIds == 3
MaxCalls == 6
MaxTasks == 3
MaxLoopInputs == 4
MaxCallers == 2
MaxCtxCalls == 3
MaxCtxInputs == 4
MaxIceServers == 1
MaxU16 == 65535

Peers == 1..MaxPeers
Tids == 1..MaxTransports
NoTransport == 0
NoChannel == 0

Offers == {0}

Sessions == 1..MaxSessions
NoSession == 0

RoomIds == 1..MaxRoomIds
Calls == 1..MaxCalls
NoRoom == 0

\* ---------------------------------------------------------------- state
VARIABLES
    transports,    \* Room.transports : PeerId -> ConnectionWrapper (NoTransport = absent)
    peers_data,    \* Room.peers_data : PeerId -> data channel (NoChannel = absent)
    command_rx,    \* queue of RoomCommands not yet received by the Room
    transport_rx,  \* queue of TransportEvents not yet received by the Room
    cmd_open,      \* TRUE while some sender of the command channel exists
    room_pc,       \* "running" while Room::run loops, "finished" after it
    conns,         \* every ConnectionWrapper ever created, by creation index
    ncmds,         \* number of commands enqueued so far
    nevts,         \* number of transport events sent so far
    events,        \* hook calls seen by the RoomBehavior, in call order
    signals,       \* calls made on the SignalingOutput, in call order
    peers,         \* SignalingInner.peers : PeerId -> writer of a session (NoSession = absent)
    ice_servers,   \* SignalingInner.ice_servers
    sess,          \* the socket sessions (handle_socket), by connection order
    nframes,       \* number of frames the clients have sent so far
    nsigs,         \* number of frames the Room has sent to the sessions so far
    other_rx,      \* commands sent to the Rooms spawned after the first, each with its Room
    rooms,         \* RoomManager.rooms : room_id -> command sender of a Room (NoRoom = absent)
    actors,        \* the Rooms constructed and spawned so far: the room_id of each
    calls,         \* the get_room_sender calls, by caller
    ctx_log,       \* RoomContext calls and the channel sends they led to, in order
    ctx_tasks,     \* channel sends begun through a RoomContext and not finished
    codec,         \* a SignalMessage on its way through serde_json and back
    awaiting       \* the hook calls the Room task has begun and that have not returned

vars == <<transports, peers_data, command_rx, transport_rx, cmd_open, room_pc,
          conns, ncmds, nevts, events, signals>>

\* The state of the signalling side: the service's map and the sessions.
svars == <<peers, ice_servers, sess, nframes, nsigs, other_rx>>

\* The state of the RoomManager and of its callers.
mvars == <<rooms, actors, calls>>

\* The state of the users of a RoomContext.
cvars == <<ctx_log, ctx_tasks>>

\* A ConnectionWrapper the Room stored, and the peer connection behind it.  (A
\* wrapper whose set-up failed is dropped before it is stored and before it can
\* send an event; it is not recorded.)
\*   st     "none" not created, "new" stored and open, "closed" after close()
\*   dc     the client's data channel has opened (DataChannelReady was sent)
\*   msgs, cands, discs   events sent so far, by kind
\*   closes number of close() calls, ice the candidates passed to add_ice_candidate
\*   offer  the offer passed to set_remote_description
NoConn == [peer_id |-> 0, st |-> "none", dc |-> FALSE, msgs |-> 0, cands |-> 0,
           discs |-> 0, closes |-> 0, ice |-> <<>>, offer |-> 0]

NewConn(p, offer) == [NoConn EXCEPT !.peer_id = p, !.st = "new", !.offer = offer]

Created == {t \in Tids : conns[t].st # "none"}

NextTid == Cardinality(Created) + 1

\* RoomCommand
JoinRequest(p, offer) == [type |-> "JoinRequest", peer_id |-> p, arg |-> offer]
IceCandidate(p, c) == [type |-> "IceCandidate", peer_id |-> p, arg |-> c]
Disconnect(p) == [type |-> "Disconnect", peer_id |-> p, arg |-> 0]

RoomCommand ==
    {JoinRequest(p, o) : p \in Peers, o \in Offers}
    \cup {IceCandidate(p, ncmds + 1) : p \in Peers}
    \cup {Disconnect(p) : p \in Peers}

\* TransportEvent; src is the ConnectionWrapper whose callback sent it (for
\* DataChannelReady it is the channel the event carries).
DataChannelReady(p, t) == [type |-> "DataChannelReady", peer_id |-> p, src |-> t, data |-> 0]
Disconnected(p, t) == [type |-> "Disconnected", peer_id |-> p, src |-> t, data |-> 0]
Message(p, t, b) == [type |-> "Message", peer_id |-> p, src |-> t, data |-> b]
CandidateGenerated(p, t, c) == [type |-> "CandidateGenerated", peer_id |-> p, src |-> t, data |-> c]

\* The answer SDP that create_answer returns for connection t.
AnswerSdp(t) == t

\* ---------------------------------------------------------------- Room state
\* The part of the state a handler reads and writes, as one record, so that a
\* handler is the composition of the calls it makes.
RoomState ==
    [transports |-> transports, peers_data |-> peers_data, conns |-> conns,
     events |-> events, signals |-> signals]

Commit(S) ==
    /\ transports' = S.transports
    /\ peers_data' = S.peers_data
    /\ conns' = S.conns
    /\ events' = S.events
    /\ signals' = S.signals

\* RoomBehavior hooks as the behavior sees them; rec is the transport stored
\* for the peer when the hook ran (for on_leave: the one just removed), src the
\* transport whose event caused the call (NoTransport for a command).
Hook(name, p, rec, src, b) ==
    [hook |-> name, peer_id |-> p, rec |-> rec, src |-> src, data |-> b]

on_join(S, p, src) ==
    [S EXCEPT !.events = Append(@, Hook("on_join", p, S.transports[p], src, 0))]

on_message(S, p, src, b) ==
    [S EXCEPT !.events = Append(@, Hook("on_message", p, S.transports[p], src, b))]

on_leave(S, p, rec) ==
    [S EXCEPT !.events = Append(@, Hook("on_leave", p, rec, NoTransport, 0))]

\* SignalingOutput
send_answer(S, p, sdp) ==
    [S EXCEPT !.signals = Append(@, [type |-> "Answer", peer_id |-> p, body |-> sdp])]

send_ice(S, p, c) ==
    [S EXCEPT !.signals = Append(@, [type |-> "Ice", peer_id |-> p, body |-> c])]

\* ConnectionWrapper::close
close(S, t) ==
    [S EXCEPT !.conns[t].st = "closed", !.conns[t].closes = @ + 1]

\* remove_peer that forgets the transport without closing it.
remove_peer_no_close(S, p) ==
    [S EXCEPT !.peers_data[p] = NoChannel, !.transports[p] = NoTransport]

\* remove_peer that clears the whole data-channel map.
remove_peer_clear_all(S, p) ==
    LET S1 == [S EXCEPT !.peers_data = [q \in DOMAIN S.peers_data |-> NoChannel]]
        t == S.transports[p]
    IN  IF t = NoTransport
        THEN S1
        ELSE close([S1 EXCEPT !.transports[p] = NoTransport], t)

\* remove_peer that closes the removed transport a second time.
remove_peer_close_twice(S, p) ==
    LET S1 == [S EXCEPT !.peers_data[p] = NoChannel]
        t == S.transports[p]
    IN  IF t = NoTransport
        THEN S1
        ELSE close(close([S1 EXCEPT !.transports[p] = NoTransport], t), t)

\* Room::remove_peer
remove_peer(S, p) ==
    LET S1 == [S EXCEPT !.peers_data[p] = NoChannel]
        t == S.transports[p]
    IN  IF t = NoTransport
        THEN S1
        ELSE close([S1 EXCEPT !.transports[p] = NoTransport], t)

\* Room::remove_peer_with_notify
remove_peer_with_notify(S, p) ==
    LET was_active == S.peers_data[p] # NoChannel
        S1 == remove_peer(S, p)
    IN  IF was_active THEN on_leave(S1, p, S.transports[p]) ELSE S1

\* Outcomes of the three fallible calls of a JoinRequest: ConnectionWrapper::new,
\* set_remote_description and create_answer.
JoinOutcomes == {"create_err", "sdp_err", "answer_err", "ok"}

\* handle_join_request that answers only a peer that had no record.
handle_join_request_first_answer_only(S, p, offer, outcome) ==
    LET S1 == IF S.transports[p] # NoTransport THEN remove_peer(S, p) ELSE S
        t == Cardinality({u \in Tids : S.conns[u].st # "none"}) + 1
        S2 == [S1 EXCEPT !.conns[t] = NewConn(p, offer)]
        S3 == [S2 EXCEPT !.transports[p] = t]
    IN  IF outcome # "ok"
        THEN S1
        ELSE IF S.transports[p] # NoTransport
             THEN S3
             ELSE send_answer(S3, p, AnswerSdp(t))

\* handle_join_request that stores the transport and sends no Answer.
handle_join_request_no_answer(S, p, offer, outcome) ==
    LET S1 == IF S.transports[p] # NoTransport THEN remove_peer(S, p) ELSE S
        t == Cardinality({u \in Tids : S.conns[u].st # "none"}) + 1
        S2 == [S1 EXCEPT !.conns[t] = NewConn(p, offer)]
    IN  IF outcome # "ok"
        THEN S1
        ELSE [S2 EXCEPT !.transports[p] = t]

\* Room::handle_command, JoinRequest arm
handle_join_request(S, p, offer, outcome) ==
    LET S1 == IF S.transports[p] # NoTransport THEN remove_peer(S, p) ELSE S
        t == Cardinality({u \in Tids : S.conns[u].st # "none"}) + 1
        S2 == [S1 EXCEPT !.conns[t] = NewConn(p, offer)]
    IN  IF outcome # "ok"
        THEN S1
        ELSE send_answer([S2 EXCEPT !.transports[p] = t], p, AnswerSdp(t))

\* Outcomes of add_ice_candidate
IceOutcomes == {"ok", "ice_err"}

\* handle_ice_candidate that stops adding candidates once the peer is active.
handle_ice_candidate_until_ready(S, p, c, outcome) ==
    LET t == S.transports[p]
    IN  IF t = NoTransport \/ S.peers_data[p] # NoChannel
        THEN S
        ELSE [S EXCEPT !.conns[t].ice = Append(@, c)]

\* handle_ice_candidate that gives the peer up when add_ice_candidate fails.
handle_ice_candidate_drop_on_error(S, p, c, outcome) ==
    LET t == S.transports[p]
        S1 == [S EXCEPT !.conns[t].ice = Append(@, c)]
    IN  IF t = NoTransport
        THEN S
        ELSE IF outcome = "ice_err" THEN remove_peer(S1, p) ELSE S1

\* Room::handle_command, IceCandidate arm: the candidate is passed to
\* add_ice_candidate of the stored transport; an error is logged and that is all.
handle_ice_candidate(S, p, c, outcome) ==
    LET t == S.transports[p]
        S1 == [S EXCEPT !.conns[t].ice = Append(@, c)]
    IN  IF t = NoTransport
        THEN S
        ELSE IF outcome = "ice_err" THEN S1 ELSE S1

\* Room::handle_command
handle_command(S, cmd, outcome) ==
    CASE cmd.type = "JoinRequest" ->
            handle_join_request(S, cmd.peer_id, cmd.arg, outcome)
      [] cmd.type = "IceCandidate" ->
            handle_ice_candidate(S, cmd.peer_id, cmd.arg, outcome)
      [] OTHER -> remove_peer_with_notify(S, cmd.peer_id)

\* handle_transport_event that drops the Message of a peer without a sink.
handle_transport_event_drop_inactive(S, e) ==
    CASE e.type = "DataChannelReady" ->
            on_join([S EXCEPT !.peers_data[e.peer_id] = e.src], e.peer_id, e.src)
      [] e.type = "Message" ->
            IF S.peers_data[e.peer_id] = NoChannel
            THEN S
            ELSE on_message(S, e.peer_id, e.src, e.data)
      [] e.type = "Disconnected" -> remove_peer_with_notify(S, e.peer_id)
      [] OTHER -> send_ice(S, e.peer_id, e.data)

\* Room::handle_transport_event
handle_transport_event(S, e) ==
    CASE e.type = "DataChannelReady" ->
            on_join([S EXCEPT !.peers_data[e.peer_id] = e.src], e.peer_id, e.src)
      [] e.type = "Message" -> on_message(S, e.peer_id, e.src, e.data)
      [] e.type = "Disconnected" -> remove_peer_with_notify(S, e.peer_id)
      [] OTHER -> send_ice(S, e.peer_id, e.data)

\* ---------------------------------------------------------------- initial state
\* Room::new
NewRoom ==
    /\ transports = [p \in Peers |-> NoTransport]
    /\ peers_data = [p \in Peers |-> NoChannel]
    /\ command_rx = <<>>
    /\ transport_rx = <<>>
    /\ cmd_open = TRUE
    /\ room_pc = "running"
    /\ conns = [t \in Tids |-> NoConn]
    /\ ncmds = 0
    /\ nevts = 0
    /\ events = <<>>
    /\ signals = <<>>
    /\ awaiting = <<>>

\* A socket session (handle_socket) and its two tasks.
\*   pc      "none" not connected, "run" registered with both tasks spawned,
\*           "done" after the select! and remove_peer
\*   reader  recv_task: "recv" in its loop, "done" finished, "aborted"
\*   writer  send_task: "run" in its loop, "done" finished, "aborted"
\*   room    current_room_tx is Some
\*   sink    the Room whose command sender current_room_tx holds, by spawn order
\*   rx      frames queued in the session's unbounded channel
\*   wrote   frames written to the socket
NoSess == [peer_id |-> 0, pc |-> "none", reader |-> "none", writer |-> "none",
           room |-> FALSE, sink |-> 0, rx |-> <<>>, wrote |-> <<>>]

\* SignalingService::new, before any socket is upgraded
NoSessions ==
    /\ peers = [p \in Peers |-> NoSession]
    /\ sess = [s \in Sessions |-> NoSess]
    /\ nframes = 0
    /\ nsigs = 0
    /\ other_rx = <<>>

\* A get_room_sender call: "idle" not started, "missed" after a lookup that
\* found no entry, "done" returned; sink is the Room whose sender it returned.
NoCall == [pc |-> "idle", room_id |-> NoRoom, sink |-> 0]

\* RoomManager::new
NoRooms ==
    /\ rooms = [r \in RoomIds |-> 0]
    /\ actors = <<>>
    /\ calls = [c \in Calls |-> NoCall]

\* No RoomContext has been used yet.
NoCtx ==
    /\ ctx_log = <<>>
    /\ ctx_tasks = {}

\* No SignalMessage is being converted.
NoCodec == codec = [pc |-> "idle"]

Init ==
    /\ NewRoom
    /\ NoSessions
    /\ ice_servers = <<>>
    /\ NoRooms
    /\ NoCtx
    /\ NoCodec

\* ---------------------------------------------------------------- environment
PendingJoins == Cardinality({i \in 1..Len(command_rx) : command_rx[i].type = "JoinRequest"})

\* Peer ids are opaque (PeerId wraps a Uuid): peers are numbered in the order
\* in which they first appear, so peer p + 1 is named only while peer p is
\* known to a queued command or to a transport.
Named == {conns[t].peer_id : t \in Created}
            \cup {command_rx[i].peer_id : i \in 1..Len(command_rx)}

\* A holder of the command sender enqueues a command.
SendCommand ==
    \E cmd \in RoomCommand :
        /\ cmd_open
        /\ ncmds < MaxCmds
        /\ ncmds + nevts < MaxInputs
        /\ cmd.peer_id = 1 \/ (cmd.peer_id - 1) \in Named
        /\ cmd.type = "JoinRequest" => Cardinality(Created) + PendingJoins < MaxTransports
        /\ command_rx' = Append(command_rx, cmd)
        /\ ncmds' = ncmds + 1
        /\ UNCHANGED <<transports, peers_data, transport_rx, cmd_open, room_pc,
                       conns, nevts, events, signals,
                       svars, mvars, cvars, codec, awaiting>>

\* The last sender of the command channel is dropped.
CloseCommandChannel ==
    /\ cmd_open
    /\ cmd_open' = FALSE
    /\ UNCHANGED <<transports, peers_data, command_rx, transport_rx, room_pc,
                   conns, ncmds, nevts, events, signals,
                       svars, mvars, cvars, codec, awaiting>>

CanEmit == room_pc = "running" /\ nevts < MaxEvts /\ ncmds + nevts < MaxInputs

\* ConnectionWrapper::new, on_ice_candidate callback
EmitCandidateGenerated ==
    \E t \in Created :
        /\ CanEmit
        /\ conns[t].st = "new"
        /\ transport_rx' = Append(transport_rx,
                CandidateGenerated(conns[t].peer_id, t, conns[t].cands + 1))
        /\ conns' = [conns EXCEPT ![t].cands = @ + 1]
        /\ nevts' = nevts + 1
        /\ UNCHANGED <<transports, peers_data, command_rx, cmd_open, room_pc,
                       ncmds, events, signals,
                       svars, mvars, cvars, codec, awaiting>>

\* ConnectionWrapper::new, on_data_channel / on_open callback
EmitDataChannelReady ==
    \E t \in Created :
        /\ CanEmit
        /\ conns[t].st = "new"
        /\ ~conns[t].dc
        /\ transport_rx' = Append(transport_rx, DataChannelReady(conns[t].peer_id, t))
        /\ conns' = [conns EXCEPT ![t].dc = TRUE]
        /\ nevts' = nevts + 1
        /\ UNCHANGED <<transports, peers_data, command_rx, cmd_open, room_pc,
                       ncmds, events, signals,
                       svars, mvars, cvars, codec, awaiting>>

\* ConnectionWrapper::new, on_message callback of the opened channel
EmitMessage ==
    \E t \in Created :
        /\ CanEmit
        /\ conns[t].st = "new"
        /\ conns[t].dc
        /\ transport_rx' = Append(transport_rx,
                Message(conns[t].peer_id, t, conns[t].msgs + 1))
        /\ conns' = [conns EXCEPT ![t].msgs = @ + 1]
        /\ nevts' = nevts + 1
        /\ UNCHANGED <<transports, peers_data, command_rx, cmd_open, room_pc,
                       ncmds, events, signals,
                       svars, mvars, cvars, codec, awaiting>>

\* ConnectionWrapper::new, on_peer_connection_state_change callback: the
\* connection went to Failed or Disconnected by itself, or to Closed after
\* close().
EmitDisconnected ==
    \E t \in Created :
        /\ CanEmit
        /\ conns[t].st \in {"new", "closed"}
        /\ conns[t].discs = 0
        /\ transport_rx' = Append(transport_rx, Disconnected(conns[t].peer_id, t))
        /\ conns' = [conns EXCEPT ![t].discs = @ + 1]
        /\ nevts' = nevts + 1
        /\ UNCHANGED <<transports, peers_data, command_rx, cmd_open, room_pc,
                       ncmds, events, signals,
                       svars, mvars, cvars, codec, awaiting>>

\* ---------------------------------------------------------------- Room::run
\* select! arm command_rx.recv() => Some(c)
RecvCommand ==
    /\ room_pc = "running"
    /\ command_rx # <<>>
    /\ \E outcome \in JoinOutcomes \cup IceOutcomes :
        /\ Head(command_rx).type = "JoinRequest" => outcome \in JoinOutcomes
        /\ Head(command_rx).type = "IceCandidate" => outcome \in IceOutcomes
        /\ Head(command_rx).type = "Disconnect" => outcome = "ok"
        /\ Commit(handle_command(RoomState, Head(command_rx), outcome))
    /\ command_rx' = Tail(command_rx)
    /\ UNCHANGED <<transport_rx, cmd_open, room_pc, ncmds, nevts,
                       svars, mvars, cvars, codec, awaiting>>

\* RecvCommandClosed that tells the behavior that the active peers leave.
RecvCommandClosed_notify_active ==
    /\ room_pc = "running"
    /\ command_rx = <<>>
    /\ ~cmd_open
    /\ room_pc' = "finished"
    /\ events' = events \o
            [i \in 1..Cardinality({p \in Peers : peers_data[p] # NoChannel}) |->
                LET p == CHOOSE q \in Peers :
                            /\ peers_data[q] # NoChannel
                            /\ Cardinality({r \in Peers : peers_data[r] # NoChannel /\ r < q}) = i - 1
                IN  Hook("on_leave", p, transports[p], NoTransport, 0)]
    /\ UNCHANGED <<transports, peers_data, command_rx, transport_rx, cmd_open,
                   conns, ncmds, nevts, signals, svars, mvars, cvars, codec, awaiting>>

\* RecvCommandClosed that does not wait for the senders to be dropped.
RecvCommandClosed_while_open ==
    /\ room_pc = "running"
    /\ command_rx = <<>>
    /\ room_pc' = "finished"
    /\ UNCHANGED <<transports, peers_data, command_rx, transport_rx, cmd_open,
                   conns, ncmds, nevts, events, signals,
                   svars, mvars, cvars, codec, awaiting>>

\* select! arm command_rx.recv() => None
RecvCommandClosed ==
    /\ room_pc = "running"
    /\ command_rx = <<>>
    /\ ~cmd_open
    /\ room_pc' = "finished"
    /\ UNCHANGED <<transports, peers_data, command_rx, transport_rx, cmd_open,
                   conns, ncmds, nevts, events, signals,
                       svars, mvars, cvars, codec, awaiting>>

\* select! arm transport_rx.recv() => Some(e)
RecvTransportEvent ==
    /\ room_pc = "running"
    /\ transport_rx # <<>>
    /\ Commit(handle_transport_event(RoomState, Head(transport_rx)))
    /\ transport_rx' = Tail(transport_rx)
    /\ UNCHANGED <<command_rx, cmd_open, room_pc, ncmds, nevts,
                       svars, mvars, cvars, codec, awaiting>>

Next ==
    \/ SendCommand
    \/ CloseCommandChannel
    \/ EmitCandidateGenerated
    \/ EmitDataChannelReady
    \/ EmitMessage
    \/ EmitDisconnected
    \/ RecvCommand
    \/ RecvCommandClosed
    \/ RecvTransportEvent

Spec == Init /\ [][Next]_<<vars, svars, mvars, cvars, codec, awaiting>>

TypeOK ==
    /\ transports \in [Peers -> Tids \cup {NoTransport}]
    /\ peers_data \in [Peers -> Tids \cup {NoChannel}]
    /\ room_pc \in {"running", "finished"}
    /\ ncmds \in 0..MaxCmds

\* ---------------------------------------------------------------- observations
HookIdx(name, p) ==
    {i \in DOMAIN events : events[i].hook = name /\ events[i].peer_id = p}

NumJoins(p) == Cardinality(HookIdx("on_join", p))
NumLeaves(p) == Cardinality(HookIdx("on_leave", p))

\* The peer is active: its sink is in the shared map (was_active in
\* remove_peer_with_notify).
Active(p) == peers_data[p] # NoChannel

HasRecord(p) == transports[p] # NoTransport

\* The Room receives the command at the head of command_rx in this step.
CmdStep(type, p) ==
    /\ room_pc = "running"
    /\ command_rx # <<>>
    /\ command_rx' = Tail(command_rx)
    /\ Head(command_rx).type = type
    /\ Head(command_rx).peer_id = p

\* The Room receives the event at the head of transport_rx in this step.
EvtStep(type, p) ==
    /\ room_pc = "running"
    /\ transport_rx # <<>>
    /\ transport_rx' = Tail(transport_rx)
    /\ Head(transport_rx).type = type
    /\ Head(transport_rx).peer_id = p

\* In a JoinRequest step: the transport was created, took the offer and gave
\* an answer.
JoinSucceeded == conns'[NextTid].st = "new"

\* The hooks called in this step.
NewHooks == SubSeq(events', Len(events) + 1, Len(events'))

\* The signalling calls made in this step.
NewSignals == SubSeq(signals', Len(signals) + 1, Len(signals'))

\* The Answers sent to p, in order.
AnswersTo(p, sigs) ==
    LET A == SelectSeq(sigs, LAMBDA g : g.type = "Answer" /\ g.peer_id = p)
    IN  [i \in 1..Len(A) |-> A[i].body]

\* The answers of the transports stored for p, in creation order.
RECURSIVE SetUpFrom(_, _)
SetUpFrom(p, t) ==
    IF t > MaxTransports THEN <<>>
    ELSE IF conns[t].peer_id = p
         THEN <<AnswerSdp(t)>> \o SetUpFrom(p, t + 1)
         ELSE SetUpFrom(p, t + 1)

\* ---------------------------------------------------------------- claims

\* C1: on_join(P) is invoked at most once per PeerRecord, while that record
\* is stored, and only for a DataChannelReady sent by that record's transport.
C1_OnJoinOncePerRecord ==
    \A i \in DOMAIN events :
        events[i].hook = "on_join" =>
            /\ events[i].rec # NoTransport
            /\ events[i].src = events[i].rec
            /\ \A j \in DOMAIN events :
                (j # i /\ events[j].hook = "on_join") => events[j].rec # events[i].rec

\* C2: on_leave(P) is invoked at most once per PeerRecord and only after an
\* on_join invoked for that same record; a record that never had its on_join
\* gets no on_leave.
C2_OnLeaveOnlyAfterOnJoin ==
    \A i \in DOMAIN events :
        events[i].hook = "on_leave" =>
            /\ events[i].rec # NoTransport
            /\ \E j \in 1..(i - 1) :
                /\ events[j].hook = "on_join"
                /\ events[j].peer_id = events[i].peer_id
                /\ events[j].rec = events[i].rec
            /\ \A k \in DOMAIN events :
                (k # i /\ events[k].hook = "on_leave") => events[k].rec # events[i].rec

\* C3: every on_message(P, _) comes after the on_join of P's record and
\* before its on_leave; a Message for a peer without an active record calls
\* no hook.
C3_OnMessageBetweenJoinAndLeave ==
    \A i \in DOMAIN events :
        events[i].hook = "on_message" =>
            \E j \in 1..(i - 1) :
                /\ events[j].hook = "on_join"
                /\ events[j].peer_id = events[i].peer_id
                /\ \A k \in (j + 1)..(i - 1) :
                    ~(events[k].hook = "on_leave" /\ events[k].peer_id = events[i].peer_id)

\* C4: for every peer the number of on_join calls is at most the number of
\* on_leave calls plus one if the peer is active.  (A handler is one step, so
\* the Room is idle in every state, where the claim asks for equality; the
\* number of on_join calls is never below the right-hand side.)
C4_JoinsBoundedByLeaves ==
    \A p \in Peers :
        NumJoins(p) <= NumLeaves(p) + (IF Active(p) THEN 1 ELSE 0)

\* C5: a JoinRequest for a peer whose record is active invokes on_leave for
\* that peer (before the replacement is created); a JoinRequest for a peer
\* whose record is not active invokes no on_leave.
C5_ActiveReplacementNotifies ==
    [][\A p \in Peers :
        (CmdStep("JoinRequest", p) /\ HasRecord(p)) =>
            IF Active(p)
            THEN /\ NewHooks # <<>>
                 /\ NewHooks[1].hook = "on_leave"
                 /\ NewHooks[1].peer_id = p
            ELSE NewHooks = <<>>]_vars

\* C6: a JoinRequest for a peer whose record is still handshaking closes the
\* prior transport, calls no hook and, when the set-up succeeds, stores a new
\* handshaking record; a DataChannelReady of the stored transport then calls
\* on_join, and on_join is called at most once for the DataChannelReady of one
\* transport.
C6_SilentReplacement ==
    /\ [][\A p \in Peers :
            (CmdStep("JoinRequest", p) /\ HasRecord(p) /\ ~Active(p)) =>
                /\ conns'[transports[p]].st = "closed"
                /\ conns'[transports[p]].closes = conns[transports[p]].closes + 1
                /\ NewHooks = <<>>
                /\ transports'[p] # transports[p]
                /\ ~Active(p)'
                /\ JoinSucceeded =>
                    /\ transports'[p] = NextTid
                    /\ ~conns'[NextTid].dc]_vars
    /\ [][\A p \in Peers :
            (EvtStep("DataChannelReady", p) /\ HasRecord(p)
                /\ Head(transport_rx).src = transports[p]) =>
                /\ NewHooks = <<Hook("on_join", p, transports[p], transports[p], 0)>>
                /\ \A i \in DOMAIN events :
                    ~(events[i].hook = "on_join" /\ events[i].src = transports[p])]_vars

\* C6 witness: the first transport of a peer was replaced while handshaking
\* and never opened its channel; the second one is stored, its
\* DataChannelReady was handled and on_join is the only hook called.
C6_Witness ==
    \E p \in Peers :
        /\ ncmds = 2
        /\ command_rx = <<>>
        /\ conns[1].peer_id = p /\ conns[1].st = "closed" /\ ~conns[1].dc
        /\ transports[p] = 2
        /\ peers_data[p] = 2
        /\ events = <<Hook("on_join", p, 2, 2, 0)>>

\* C7: a JoinRequest{P} whose set-up succeeds stores one non-active record for
\* P and sends exactly one Answer, with the SDP of create_answer, to P.
C7_JoinStoresInactiveRecord ==
    [][\A p \in Peers :
        (CmdStep("JoinRequest", p) /\ JoinSucceeded) =>
            /\ transports'[p] = NextTid
            /\ ~Active(p)'
            /\ NewSignals = <<[type |-> "Answer", peer_id |-> p, body |-> AnswerSdp(NextTid)]>>]_vars

\* C8: a JoinRequest{P} whose set-up fails leaves no record and no sink for P,
\* sends no Answer and leaves the Room running.
C8_FailedJoinLeavesNothing ==
    [][\A p \in Peers :
        (CmdStep("JoinRequest", p) /\ ~JoinSucceeded) =>
            /\ ~HasRecord(p)'
            /\ ~Active(p)'
            /\ NewSignals = <<>>
            /\ room_pc' = "running"]_vars

\* C9 as stated: when a JoinRequest replaces a record of the same peer (no
\* Disconnect came in between), the Answer of the replaced record's
\* JoinRequest is not among the Answers the signalling output got.
C9_OnlyFinalAnswer ==
    [][\A p \in Peers :
        (CmdStep("JoinRequest", p) /\ HasRecord(p)) =>
            \A i \in DOMAIN signals' :
                ~(/\ signals'[i].type = "Answer"
                  /\ signals'[i].peer_id = p
                  /\ signals'[i].body = AnswerSdp(transports[p]))]_vars

\* C9 amended: the signalling output gets one Answer per JoinRequest whose
\* set-up succeeded, in request order, and the last Answer sent to a peer is
\* the one of the transport stored for it.
C9_OneAnswerPerJoin ==
    \A p \in Peers :
        LET answers == AnswersTo(p, signals)
        IN  /\ answers = SetUpFrom(p, 1)
            /\ HasRecord(p) =>
                /\ answers # <<>>
                /\ answers[Len(answers)] = AnswerSdp(transports[p])

\* C9 witness: two JoinRequests for one peer and nothing else; both Answers
\* are with the signalling output and the second transport is stored.
C9_Witness ==
    \E p \in Peers :
        /\ ncmds = 2
        /\ command_rx = <<>>
        /\ AnswersTo(p, signals) = <<AnswerSdp(1), AnswerSdp(2)>>
        /\ transports[p] = 2
        /\ conns[1].st = "closed"

\* The last hook called for p is not on_leave: p joined and has not left.
Joined(p) ==
    /\ HookIdx("on_join", p) # {}
    /\ \A i \in HookIdx("on_leave", p) : \E j \in HookIdx("on_join", p) : j > i

\* C10: after on_join(P) a Disconnect{P} removes P's record and sink, closes
\* P's transport and invokes on_leave(P) once; after that, until a new
\* JoinRequest{P}, an IceCandidate{P} or Disconnect{P} changes nothing and
\* calls no hook.
C10_DisconnectThenNoOps ==
    [][\A p \in Peers :
        /\ (CmdStep("Disconnect", p) /\ Joined(p)) =>
            /\ HasRecord(p)
            /\ conns'[transports[p]].closes = conns[transports[p]].closes + 1
            /\ ~HasRecord(p)'
            /\ ~Active(p)'
            /\ NewHooks = <<Hook("on_leave", p, transports[p], NoTransport, 0)>>
        /\ ((CmdStep("Disconnect", p) \/ CmdStep("IceCandidate", p))
                /\ ~HasRecord(p) /\ ~Joined(p) /\ HookIdx("on_leave", p) # {}) =>
            UNCHANGED <<transports, peers_data, conns, events, signals>>]_vars

\* on_leave was called for the record whose transport was t.
LeftRecord(t) == \E i \in DOMAIN events : events[i].hook = "on_leave" /\ events[i].rec = t

\* C11: a Disconnect{P} command and the Disconnected(P) event of the same
\* transport, handled for an active record in either order, call on_leave(P)
\* once: the first of them, finding the record active, calls it, and the
\* Disconnected event of a transport whose record already got its on_leave
\* calls no hook.
C11_OnLeaveOncePerRecord ==
    [][\A p \in Peers :
        /\ ((CmdStep("Disconnect", p)
                \/ (EvtStep("Disconnected", p) /\ Head(transport_rx).src = transports[p]))
              /\ HasRecord(p) /\ Active(p)) =>
            NewHooks = <<Hook("on_leave", p, transports[p], NoTransport, 0)>>
        /\ (EvtStep("Disconnected", p) /\ LeftRecord(Head(transport_rx).src)) =>
            NewHooks = <<>>]_vars

\* C12: a DataChannelReady, Message or Disconnected event for a peer that has
\* no PeerRecord is ignored: no hook is called, and the transports and the
\* data-channel map stay as they are.
C12_EventWithoutRecordIgnored ==
    [][\A p \in Peers :
        ((EvtStep("DataChannelReady", p) \/ EvtStep("Message", p)
                \/ EvtStep("Disconnected", p))
            /\ ~HasRecord(p)) =>
            /\ NewHooks = <<>>
            /\ UNCHANGED <<transports, peers_data>>]_vars

\* The on_message calls made for p, in call order, as <<transport, payload>>.
Delivered(p) ==
    LET D == SelectSeq(events, LAMBDA h : h.hook = "on_message" /\ h.peer_id = p)
    IN  [i \in 1..Len(D) |-> <<D[i].src, D[i].data>>]

\* The Message events of p that the Room has not received yet, in queue order.
Pending(p) ==
    LET Q == SelectSeq(transport_rx, LAMBDA e : e.type = "Message" /\ e.peer_id = p)
    IN  [i \in 1..Len(Q) |-> <<Q[i].src, Q[i].data>>]

\* The Message events p's transports t, t + 1, ... have sent, in sending order:
\* a peer's transport is created when its previous one has been closed.
RECURSIVE Emitted(_, _)
Emitted(p, t) ==
    IF t > MaxTransports
    THEN <<>>
    ELSE (IF conns[t].peer_id = p
          THEN [i \in 1..conns[t].msgs |-> <<t, i>>]
          ELSE <<>>) \o Emitted(p, t + 1)

\* C13: for every peer the Message events its transports sent are, in sending
\* order and with their payloads, the on_message calls made so far followed by
\* the events still queued: each event is delivered once, none is lost,
\* duplicated or reordered.
C13_MessagesDeliveredInOrder ==
    \A p \in Peers : Delivered(p) \o Pending(p) = Emitted(p, 1)

\* C13 witness: two messages of one transport have reached on_message, in the
\* order sent.
C13_Witness ==
    \E p \in Peers : \E t \in Created :
        /\ Delivered(p) = <<<<t, 1>>, <<t, 2>>>>
        /\ Pending(p) = <<>>

\* The Room receives a command, or a transport event.
CmdRecv == room_pc = "running" /\ command_rx # <<>> /\ command_rx' = Tail(command_rx)
EvtRecv == room_pc = "running" /\ transport_rx # <<>> /\ transport_rx' = Tail(transport_rx)

\* No step of the Room on an input of peer p touches another peer q: q's
\* record, transport and sink stay as they are and no hook is called for q.
OthersUntouched(p) ==
    /\ \A q \in Peers \ {p} :
        /\ transports'[q] = transports[q]
        /\ peers_data'[q] = peers_data[q]
        /\ HasRecord(q) => conns'[transports[q]] = conns[transports[q]]
    /\ \A i \in DOMAIN NewHooks : NewHooks[i].peer_id = p

\* C14: handling a command or transport event of peer P leaves the record,
\* the transport, the sink and the active status of every other peer Q as
\* they are and calls no hook for Q; a Message of a peer is handed to
\* on_message for that peer whatever happened to the other peers.
C14_OtherPeersUntouched ==
    [][/\ CmdRecv => OthersUntouched(Head(command_rx).peer_id)
       /\ EvtRecv =>
            LET e == Head(transport_rx)
            IN  /\ OthersUntouched(e.peer_id)
                /\ e.type = "Message" =>
                    NewHooks = <<Hook("on_message", e.peer_id, transports[e.peer_id],
                                      e.src, e.data)>>]_vars

\* C14 witness: P joined and left through Disconnect{P}; Q, which joined as
\* well, is still active and a message of Q reached on_message after P left.
C14_Witness ==
    \E p \in Peers : \E q \in Peers \ {p} :
        /\ ~HasRecord(p)
        /\ HasRecord(q)
        /\ Active(q)
        /\ \E i \in HookIdx("on_leave", p) :
            \E j \in DOMAIN events :
                /\ j > i
                /\ events[j].hook = "on_message"
                /\ events[j].peer_id = q
                /\ events[j].rec = transports[q]

\* The transports ever created for p.
TransportsOf(p) == {t \in Created : conns[t].peer_id = p}

\* The DataChannelReady of t was sent and the Room has received it.
ReadyHandled(t) ==
    /\ conns[t].dc
    /\ \A i \in DOMAIN transport_rx :
        ~(transport_rx[i].type = "DataChannelReady" /\ transport_rx[i].src = t)

\* C15: an IceCandidate{P, c} received while P's transport is stored is passed
\* once to add_ice_candidate of that transport, after the candidates passed
\* before, whether or not P is active, and calls no hook; the candidates of a
\* transport are in arrival order, and a peer whose JoinRequest created its
\* only transport gets one on_join, when that transport's DataChannelReady is
\* received.
C15_CandidatesAppliedInOrder ==
    /\ [][(CmdRecv /\ Head(command_rx).type = "IceCandidate") =>
            LET p == Head(command_rx).peer_id
                c == Head(command_rx).arg
                t == transports[p]
            IN  /\ UNCHANGED <<transports, peers_data, events, signals>>
                /\ conns' = IF t = NoTransport
                            THEN conns
                            ELSE [conns EXCEPT ![t].ice = Append(@, c)]]_vars
    /\ [](\A t \in Created :
            /\ \A i, j \in DOMAIN conns[t].ice : i < j => conns[t].ice[i] < conns[t].ice[j]
            /\ TransportsOf(conns[t].peer_id) = {t} =>
                NumJoins(conns[t].peer_id) = IF ReadyHandled(t) THEN 1 ELSE 0)

\* C15 witness: one JoinRequest{P} and two IceCandidate{P} were handled and
\* the DataChannelReady was received: both candidates are with the transport
\* in arrival order and on_join(P) was called once.
C15_Witness ==
    \E p \in Peers :
        /\ ncmds = 3
        /\ command_rx = <<>>
        /\ HasRecord(p)
        /\ Active(p)
        /\ TransportsOf(p) = {transports[p]}
        /\ conns[transports[p]].ice = <<2, 3>>
        /\ NumJoins(p) = 1

\* ---------------------------------------------------------------- RoomManager, get_room_sender
\* The part of get_room_sender after a lookup that found nothing: a channel
\* and a behaviour are made, the Room is spawned and its sender is inserted
\* under room_id, replacing what is stored there.
create_room(M, r) ==
    LET a == Len(M.actors) + 1
    IN  [rooms |-> [M.rooms EXCEPT ![r] = a], actors |-> Append(M.actors, r), sink |-> a]

\* get_room_sender that never looks the room up.
get_room_sender_always_create(M, r) == create_room(M, r)

\* RoomManager::get_room_sender, run without another call in between
get_room_sender(M, r) ==
    IF M.rooms[r] # NoRoom
    THEN [rooms |-> M.rooms, actors |-> M.actors, sink |-> M.rooms[r]]
    ELSE create_room(M, r)

Manager == [rooms |-> rooms, actors |-> actors]

\* ---------------------------------------------------------------- signalling
allvars == <<vars, svars, mvars, cvars, codec, awaiting>>

\* The ice_servers lists a SignalingService may be built with.
IceServerLists == {<<>>, <<"stun">>}

\* SignalingService::add_peer; the writer is named by its session
add_peer(P, p, s) == [P EXCEPT ![p] = s]

\* remove_peer that leaves the entry in the map.
service_remove_peer_keep(P, p) == P

\* SignalingService::remove_peer
service_remove_peer(P, p) == [P EXCEPT ![p] = NoSession]

\* send_signal that queues the frame of an unregistered peer for the sessions
\* that were opened for it.
send_signal_to_unregistered(P, SS, p, frame) ==
    LET s == P[p]
    IN  IF s = NoSession
        THEN [u \in DOMAIN SS |->
                IF SS[u].peer_id = p THEN [SS[u] EXCEPT !.rx = Append(@, frame)]
                ELSE SS[u]]
        ELSE IF SS[s].writer # "run"
             THEN SS
             ELSE [SS EXCEPT ![s].rx = Append(@, frame)]

\* SignalingService::send_signal: the frame goes to the writer stored for the
\* peer; without an entry, or when that writer's task has dropped its
\* receiver, the frame is lost.
send_signal(P, SS, p, frame) ==
    LET s == P[p]
    IN  IF s = NoSession \/ SS[s].writer # "run"
        THEN SS
        ELSE [SS EXCEPT ![s].rx = Append(@, frame)]

\* SignalMessage in its {op, d} envelope
Frame(op, d) == [op |-> op, d |-> d]

\* The room's command receiver still exists, so tx.send(cmd) succeeds.
RoomAlive == room_pc = "running"

\* mpsc::Sender::send of the session's current_room_tx
room_send(cmd) == IF RoomAlive THEN Append(command_rx, cmd) ELSE command_rx

\* The Room of command_rx and room_pc is the first Room the RoomManager
\* spawned; the Rooms spawned after it keep running.
SinkAlive(k) == k = 1 => RoomAlive

\* The commands sent to the Room spawned k-th that it has not received.
RxOf(k) ==
    IF k = 1
    THEN command_rx
    ELSE LET Q == SelectSeq(other_rx, LAMBDA m : m.to = k)
         IN  [i \in 1..Len(Q) |-> Q[i].cmd]

\* A send that goes to the first Room the session joined, whichever Room its
\* latest Join named.
Forward_to_first_room(s, cmd) ==
    /\ command_rx' = IF sess[s].sink >= 1 THEN room_send(cmd) ELSE command_rx
    /\ other_rx' = other_rx

\* tx.send(cmd) on the current_room_tx of session s, if it has one
Forward(s, cmd) ==
    /\ command_rx' = IF sess[s].sink = 1 THEN room_send(cmd) ELSE command_rx
    /\ other_rx' = IF sess[s].sink > 1
                   THEN Append(other_rx, [to |-> sess[s].sink, cmd |-> cmd])
                   ELSE other_rx

\* The sockets opened and the frames the clients sent, taken together, stay
\* below MaxJointInputs.
Opened == Cardinality({s \in Sessions : sess[s].pc # "none"})
CanInput == Opened + nframes < MaxJointInputs

\* Session s is in its reader loop, at receiver.next().
Reading(s) == sess[s].pc = "run" /\ sess[s].reader = "recv"

\* Session s is in its writer loop, at rx.recv().
Writing(s) == sess[s].pc = "run" /\ sess[s].writer = "run"

\* handle_socket up to the spawn of the two tasks.  Sessions are numbered in
\* connection order and peers in the order of their first session.
Connect ==
    \E s \in Sessions : \E p \in Peers :
        /\ sess[s].pc = "none"
        /\ CanInput
        /\ s > 1 => sess[s - 1].pc # "none"
        /\ p > 1 => \E u \in Sessions : sess[u].peer_id = p - 1
        /\ LET P1 == add_peer(peers, p, s)
               S1 == [sess EXCEPT ![s] = [NoSess EXCEPT !.peer_id = p, !.pc = "run",
                                          !.reader = "recv", !.writer = "run"]]
           IN  /\ peers' = P1
               /\ sess' = IF ice_servers # <<>>
                          THEN send_signal(P1, S1, p, Frame("IceConfig", ice_servers))
                          ELSE S1
        /\ UNCHANGED <<vars, mvars, ice_servers, nframes, nsigs, other_rx, cvars, codec, awaiting>>

\* recv_task, SignalMessage::Join: the sender get_room_sender returns becomes
\* current_room_tx and a Welcome is sent to the peer.  Room ids are numbered in
\* the order in which they are first joined.
JoinFrame(s, r) ==
    /\ Reading(s)
    /\ nframes < MaxJointFrames
    /\ CanInput
    /\ r > 1 => rooms[r - 1] # NoRoom
    /\ LET M == get_room_sender(Manager, r)
       IN  /\ rooms' = M.rooms
           /\ actors' = M.actors
           /\ sess' = send_signal(peers,
                                  [sess EXCEPT ![s].room = TRUE, ![s].sink = M.sink],
                                  sess[s].peer_id, Frame("Welcome", sess[s].peer_id))
    /\ nframes' = nframes + 1
    /\ UNCHANGED <<vars, calls, peers, ice_servers, nsigs, other_rx, cvars, codec, awaiting>>

RecvJoin == \E s \in Sessions : \E r \in RoomIds : JoinFrame(s, r)

\* A reader that drops the result of the send of the JoinRequest.
OfferFrame_ignore_send_error(s) ==
    /\ Reading(s)
    /\ nframes < MaxJointFrames
    /\ CanInput
    /\ Forward(s, JoinRequest(sess[s].peer_id, s))
    /\ nframes' = nframes + 1
    /\ UNCHANGED <<transports, peers_data, transport_rx, cmd_open, room_pc, conns,
                   ncmds, nevts, events, signals, mvars, peers, ice_servers, sess,
                   nsigs, cvars, codec, awaiting>>

\* recv_task, SignalMessage::Offer: without a room the frame is dropped; a
\* failed send leaves the loop, and the Disconnect after the loop fails too.
OfferFrame(s) ==
    /\ Reading(s)
    /\ nframes < MaxJointFrames
    /\ CanInput
    /\ Forward(s, JoinRequest(sess[s].peer_id, s))
    /\ sess' = IF sess[s].room /\ ~SinkAlive(sess[s].sink)
               THEN [sess EXCEPT ![s].reader = "done"]
               ELSE sess
    /\ nframes' = nframes + 1
    /\ UNCHANGED <<transports, peers_data, transport_rx, cmd_open, room_pc, conns,
                   ncmds, nevts, events, signals, mvars, peers, ice_servers, nsigs, cvars, codec, awaiting>>

RecvOffer == \E s \in Sessions : OfferFrame(s)

\* recv_task, SignalMessage::IceCandidate: the result of the send is dropped
IceCandidateFrame(s) ==
    /\ Reading(s)
    /\ nframes < MaxJointFrames
    /\ CanInput
    /\ Forward(s, IceCandidate(sess[s].peer_id, nframes + 1))
    /\ nframes' = nframes + 1
    /\ UNCHANGED <<transports, peers_data, transport_rx, cmd_open, room_pc, conns,
                   ncmds, nevts, events, signals, mvars, peers, ice_servers, sess,
                   nsigs, cvars, codec, awaiting>>

RecvIceCandidate == \E s \in Sessions : IceCandidateFrame(s)

\* The frames the reader passes over: a text that is no SignalMessage, the
\* server-to-client messages, and a message that is no text (binary, ping, pong).
IgnoredKinds == {"invalid", "Answer", "Welcome", "IceConfig", "binary"}

\* A reader that leaves its loop at a text it cannot decode.
IgnoredFrame_break_on_invalid(s, kind) ==
    /\ Reading(s)
    /\ nframes < MaxJointFrames
    /\ CanInput
    /\ kind \in IgnoredKinds
    /\ sess' = IF kind = "invalid" THEN [sess EXCEPT ![s].reader = "done"] ELSE sess
    /\ nframes' = nframes + 1
    /\ UNCHANGED <<vars, mvars, peers, ice_servers, nsigs, other_rx, cvars, codec, awaiting>>

\* recv_task: the `_ => {}` arms and the Err arm of from_str, which logs a
\* warning; the loop goes on to the next message.
IgnoredFrame(s, kind) ==
    /\ Reading(s)
    /\ nframes < MaxJointFrames
    /\ CanInput
    /\ kind \in IgnoredKinds
    /\ nframes' = nframes + 1
    /\ UNCHANGED <<vars, mvars, peers, ice_servers, sess, nsigs, other_rx, cvars, codec, awaiting>>

RecvIgnored == \E s \in Sessions : \E kind \in IgnoredKinds : IgnoredFrame(s, kind)

\* recv_task: Message::Close, the end of the stream or a read error ends the
\* loop; the task sends Disconnect if it has a room and finishes.
ReaderEnds ==
    \E s \in Sessions :
        /\ Reading(s)
        /\ Forward(s, Disconnect(sess[s].peer_id))
        /\ sess' = [sess EXCEPT ![s].reader = "done"]
        /\ UNCHANGED <<transports, peers_data, transport_rx, cmd_open, room_pc, conns,
                       ncmds, nevts, events, signals, mvars, peers, ice_servers,
                       nframes, nsigs, cvars, codec, awaiting>>

\* send_task: a queued frame is written to the socket
WriterSends ==
    \E s \in Sessions :
        /\ Writing(s)
        /\ sess[s].rx # <<>>
        /\ sess' = [sess EXCEPT ![s].rx = Tail(@),
                                ![s].wrote = Append(@, Head(sess[s].rx))]
        /\ UNCHANGED <<vars, mvars, peers, ice_servers, nframes, nsigs, other_rx, cvars, codec, awaiting>>

\* send_task: the write of a queued frame fails and the loop breaks
WriterFails ==
    \E s \in Sessions :
        /\ Writing(s)
        /\ sess[s].rx # <<>>
        /\ sess' = [sess EXCEPT ![s].rx = <<>>, ![s].writer = "done"]
        /\ UNCHANGED <<vars, mvars, peers, ice_servers, nframes, nsigs, other_rx, cvars, codec, awaiting>>

\* send_task: rx.recv() returns None, the queue being empty and the sender
\* gone from the service's map
WriterClosed ==
    \E s \in Sessions :
        /\ Writing(s)
        /\ sess[s].rx = <<>>
        /\ peers[sess[s].peer_id] # s
        /\ sess' = [sess EXCEPT ![s].writer = "done"]
        /\ UNCHANGED <<vars, mvars, peers, ice_servers, nframes, nsigs, other_rx, cvars, codec, awaiting>>

\* handle_socket from the select! on: the task that has not finished is
\* aborted and the peer's entry is removed from the service's map.
Finish(s) ==
    /\ sess[s].pc = "run"
    /\ sess[s].reader = "done" \/ sess[s].writer = "done"
    /\ sess' = [sess EXCEPT ![s].pc = "done",
                            ![s].reader = IF @ = "recv" THEN "aborted" ELSE @,
                            ![s].writer = IF @ = "run" THEN "aborted" ELSE @,
                            ![s].rx = <<>>]
    /\ peers' = service_remove_peer(peers, sess[s].peer_id)
    /\ UNCHANGED <<vars, mvars, ice_servers, nframes, nsigs, other_rx, cvars, codec, awaiting>>

FinishSession == \E s \in Sessions : Finish(s)

\* A Room sends an Answer or a candidate through the SignalingOutput
\* (SignalingService::send_answer, send_ice), to a peer whose JoinRequest a
\* session has enqueued.
Signal(p, op) ==
    /\ \/ \E i \in DOMAIN command_rx : \E s \in Sessions : command_rx[i] = JoinRequest(p, s)
       \/ \E i \in DOMAIN other_rx : \E s \in Sessions : other_rx[i].cmd = JoinRequest(p, s)
    /\ nsigs < MaxSignals
    /\ sess' = send_signal(peers, sess, p, Frame(op, nsigs + 1))
    /\ nsigs' = nsigs + 1
    /\ UNCHANGED <<vars, mvars, peers, ice_servers, nframes, other_rx, cvars, codec, awaiting>>

RoomSignals == \E p \in Peers : \E op \in {"Answer", "IceCandidate"} : Signal(p, op)

\* The task of the first Room ends and drops the command receiver.
RoomStops ==
    /\ actors # <<>>
    /\ RoomAlive
    /\ room_pc' = "finished"
    /\ UNCHANGED <<transports, peers_data, command_rx, transport_rx, cmd_open, conns,
                   ncmds, nevts, events, signals, svars, mvars, cvars, codec, awaiting>>

SessionInit ==
    /\ NewRoom
    /\ NoSessions
    /\ ice_servers \in IceServerLists
    /\ NoRooms
    /\ NoCtx
    /\ NoCodec

\* The sessions by themselves, with at most MaxSessionInputs sockets and
\* frames, of which at most MaxFrames frames.
SessionNext ==
    \/ Opened + nframes < MaxSessionInputs /\ Connect
    \/ /\ Opened + nframes < MaxSessionInputs
       /\ nframes < MaxFrames
       /\ \/ RecvJoin
          \/ RecvOffer
          \/ RecvIceCandidate
          \/ RecvIgnored
    \/ ReaderEnds
    \/ WriterSends
    \/ WriterFails
    \/ WriterClosed
    \/ FinishSession
    \/ RoomSignals
    \/ RoomStops

SessionSpec == SessionInit /\ [][SessionNext]_allvars

\* Each handle_socket that can run its select! does so.
SessionFairSpec == SessionSpec /\ \A s \in Sessions : WF_allvars(Finish(s))

SessionTypeOK ==
    /\ peers \in [Peers -> Sessions \cup {NoSession}]
    /\ \A s \in Sessions :
        /\ sess[s].pc \in {"none", "run", "done"}
        /\ sess[s].reader \in {"none", "recv", "done", "aborted"}
        /\ sess[s].writer \in {"none", "run", "done", "aborted"}
        /\ sess[s].peer_id \in Peers \cup {0}
    /\ nframes \in 0..MaxFrames
    /\ nsigs \in 0..MaxSignals

\* One of the two tasks of session s has finished: the session terminates.
Terminating(s) ==
    /\ sess[s].pc = "run"
    /\ sess[s].reader = "done" \/ sess[s].writer = "done"

\* C16: when a session that has a current room terminates while the room's
\* command channel is open, whichever of its tasks finished first, a
\* Disconnect for the session's peer is in the room's command queue.
C16_TerminationSendsDisconnect ==
    [][\A s \in Sessions :
        (Finish(s) /\ sess[s].room /\ SinkAlive(sess[s].sink)) =>
            \E i \in DOMAIN RxOf(sess[s].sink)' :
                RxOf(sess[s].sink)'[i] = Disconnect(sess[s].peer_id)]_allvars

\* Session s is over and the service's map holds no writer of it.
CleanedUp(s) == sess[s].pc = "done" /\ peers[sess[s].peer_id] # s

\* C17: once a task of a session has finished, by the reader ending, the
\* writer failing or the room's command channel being closed, the session's
\* cleanup runs: the session does not stay in that state, it leaves it only
\* into the state where it is over and the service's map holds no writer of
\* it, and that state lasts.
C17_CleanupRuns ==
    /\ \A s \in Sessions : []<>(~Terminating(s))
    /\ [][\A s \in Sessions :
            /\ (Terminating(s) /\ ~Terminating(s)') => CleanedUp(s)'
            /\ CleanedUp(s) => CleanedUp(s)']_allvars

\* C17 witness: a session with a room whose writer failed first is over, its
\* reader aborted, and its entry is gone from the map.
C17_Witness ==
    \E s \in Sessions :
        /\ sess[s].pc = "done"
        /\ sess[s].room
        /\ sess[s].writer = "done"
        /\ sess[s].reader = "aborted"
        /\ peers[sess[s].peer_id] = NoSession

\* C18: the cleanup of a session removes only the entry that session
\* registered: the writer another session registered under the same peer_id
\* stays in the service's map.
C18_RemovesOnlyOwnEntry ==
    [][\A s \in Sessions :
        Finish(s) =>
            \A p \in Peers : peers[p] # s => peers'[p] = peers[p]]_allvars

\* ---------------------------------------------------------------- RoomManager
\* Callers are numbered in the order in which they call, and room ids in the
\* order in which they are first asked for.
MayCall(c, r) ==
    /\ calls[c].pc = "idle"
    /\ c > 1 => calls[c - 1].pc # "idle"
    /\ r > 1 => \E d \in Calls : calls[d].room_id = r - 1

Returned(c) == calls[c].pc = "done"

\* A caller runs get_room_sender from its first line to its return.
GetRoomSender ==
    \E c \in Calls : \E r \in RoomIds :
        /\ MayCall(c, r)
        /\ LET M == get_room_sender(Manager, r)
           IN  /\ rooms' = M.rooms
               /\ actors' = M.actors
               /\ calls' = [calls EXCEPT ![c] = [pc |-> "done", room_id |-> r,
                                                 sink |-> M.sink]]
        /\ UNCHANGED <<vars, svars, cvars, codec, awaiting>>

ManagerSeqNext == GetRoomSender

\* The calls come one after another.
ManagerSeqSpec == Init /\ [][ManagerSeqNext]_allvars

\* One of up to MaxTasks concurrent callers runs rooms.get(room_id): with an
\* entry the call returns its clone, without one the caller goes on to create.
Lookup ==
    \E c \in 1..MaxTasks : \E r \in RoomIds :
        /\ MayCall(c, r)
        /\ calls' = [calls EXCEPT ![c] =
                        IF rooms[r] # NoRoom
                        THEN [pc |-> "done", room_id |-> r, sink |-> rooms[r]]
                        ELSE [pc |-> "missed", room_id |-> r, sink |-> 0]]
        /\ UNCHANGED <<vars, svars, rooms, actors, cvars, codec, awaiting>>

\* A caller whose lookup found nothing creates, spawns and inserts its Room.
CreateRoom ==
    \E c \in 1..MaxTasks :
        /\ calls[c].pc = "missed"
        /\ LET M == create_room(Manager, calls[c].room_id)
           IN  /\ rooms' = M.rooms
               /\ actors' = M.actors
               /\ calls' = [calls EXCEPT ![c].pc = "done", ![c].sink = M.sink]
        /\ UNCHANGED <<vars, svars, cvars, codec, awaiting>>

ManagerNext ==
    \/ Lookup
    \/ CreateRoom

\* The calls run on several threads; each DashMap operation is one step.
ManagerSpec == Init /\ [][ManagerNext]_allvars

ManagerTypeOK ==
    /\ rooms \in [RoomIds -> 0..MaxCalls]
    /\ Len(actors) <= MaxCalls
    /\ \A c \in Calls : calls[c].pc \in {"idle", "missed", "done"}

\* The room ids asked for by the calls that returned.
Requested == {calls[c].room_id : c \in {d \in Calls : Returned(d)}}

\* C19: calls made one after another with the same room_id return sinks of
\* the same Room, calls with different room_ids sinks of different Rooms; one
\* Room, with its behaviour, exists per room_id asked for, and it is the one
\* registered.
C19_OneRoomPerId ==
    /\ \A c, d \in Calls :
        (Returned(c) /\ Returned(d)) =>
            (calls[c].room_id = calls[d].room_id <=> calls[c].sink = calls[d].sink)
    /\ \A c \in Calls :
        Returned(c) =>
            /\ calls[c].sink \in DOMAIN actors
            /\ actors[calls[c].sink] = calls[c].room_id
            /\ rooms[calls[c].room_id] = calls[c].sink
    /\ Len(actors) = Cardinality(Requested)

\* C19 witness: three calls returned, two for one room_id and one for
\* another; two Rooms exist.
C19_Witness ==
    \E c, d, e \in Calls :
        /\ Returned(c) /\ Returned(d) /\ Returned(e)
        /\ c # d
        /\ calls[c].room_id = calls[d].room_id
        /\ calls[c].sink = calls[d].sink
        /\ calls[e].room_id # calls[c].room_id
        /\ calls[e].sink # calls[c].sink
        /\ Len(actors) = 2

\* C20: when callers ask concurrently for a room_id that is not registered,
\* the first creator wins: the callers that returned hold sinks of one Room,
\* the registered one, and no second Room exists for the room_id.
C20_FirstCreatorWins ==
    /\ \A c, d \in Calls :
        (Returned(c) /\ Returned(d) /\ calls[c].room_id = calls[d].room_id) =>
            calls[c].sink = calls[d].sink
    /\ \A c \in Calls : Returned(c) => rooms[calls[c].room_id] = calls[c].sink
    /\ \A a, b \in DOMAIN actors : actors[a] = actors[b] => a = b

\* ---------------------------------------------------------------- Room::run, termination
\* The producers of the Room: the holders of the command sender and the
\* callbacks of the transports, which hold clones of transport_tx.
Feed ==
    /\ ncmds + nevts < MaxLoopInputs
    /\ \/ SendCommand
       \/ EmitCandidateGenerated
       \/ EmitDataChannelReady
       \/ EmitMessage
       \/ EmitDisconnected

\* A callback of a transport runs after the Room has left its loop: the
\* receiver of the event channel is gone, tx.send fails and the result is
\* dropped (`let _ =`).
EmitAfterExit ==
    \E t \in Created : \E kind \in {"CandidateGenerated", "DataChannelReady",
                                     "Message", "Disconnected"} :
        /\ room_pc = "finished"
        /\ nevts < MaxEvts
        /\ ncmds + nevts < MaxLoopInputs
        /\ conns[t].st = "new"
        /\ kind = "DataChannelReady" => ~conns[t].dc
        /\ kind = "Message" => conns[t].dc
        /\ kind = "Disconnected" => conns[t].discs = 0
        /\ conns' = CASE kind = "CandidateGenerated" -> [conns EXCEPT ![t].cands = @ + 1]
                      [] kind = "DataChannelReady" -> [conns EXCEPT ![t].dc = TRUE]
                      [] kind = "Message" -> [conns EXCEPT ![t].msgs = @ + 1]
                      [] OTHER -> [conns EXCEPT ![t].discs = @ + 1]
        /\ nevts' = nevts + 1
        /\ UNCHANGED <<transports, peers_data, command_rx, transport_rx, cmd_open,
                       room_pc, ncmds, events, signals, svars, mvars, cvars, codec, awaiting>>

RunNext ==
    \/ Feed
    \/ EmitAfterExit
    \/ CloseCommandChannel
    \/ RecvCommand
    \/ RecvCommandClosed
    \/ RecvTransportEvent

\* Room::run under a fair scheduler: a select! arm that is ready is taken
\* after finitely many turns of the other arm, and each handler returns.
RunFairSpec ==
    /\ Init
    /\ [][RunNext]_allvars
    /\ WF_allvars(RecvCommand)
    /\ WF_allvars(RecvCommandClosed)

\* C21: the Room leaves its loop exactly when its command channel is closed:
\* while a command sender exists, or a command is queued, the loop goes on,
\* whatever the event channel holds; the loop is left only by the arm that
\* finds the command channel closed; and once the last command sender is
\* dropped the loop ends.
C21_ExitsWhenCommandChannelCloses ==
    /\ [](room_pc = "finished" => ~cmd_open /\ command_rx = <<>>)
    /\ [][room_pc' # room_pc =>
            /\ room_pc = "running"
            /\ ~cmd_open
            /\ command_rx = <<>>
            /\ UNCHANGED <<transports, peers_data, transport_rx, events, signals>>]_allvars
    /\ ~cmd_open ~> room_pc = "finished"

\* C21 witness: the last sender was dropped with commands still queued and
\* events arriving; the Room handled the commands and left its loop with an
\* event still in its event channel.
C21_Witness ==
    /\ room_pc = "finished"
    /\ ncmds >= 2
    /\ events # <<>>
    /\ transport_rx # <<>>

\* ---------------------------------------------------------------- sessions, frames
\* The frames session s was handed that are still known: those written to its
\* socket followed by those queued for its writer.
Frames(s) == sess[s].wrote \o sess[s].rx

\* C22: in every session one IceConfig frame is queued for the writer by the
\* registration itself, before anything else, and no second one follows: the
\* IceConfig is the first frame written to the socket, ahead of every
\* Welcome, Answer and IceCandidate.
C22_IceConfigFirst ==
    /\ [][\A s \in Sessions :
            (sess[s].pc = "none" /\ sess'[s].pc = "run") =>
                sess'[s].rx = <<Frame("IceConfig", ice_servers)>>]_allvars
    /\ [](\A s \in Sessions :
            \A i \in DOMAIN Frames(s) : Frames(s)[i].op = "IceConfig" <=> i = 1)

\* The Rooms a session's sender may belong to.
Sinks == 1..MaxFrames

\* C23: a Join{room} frame makes the sink registered for that room the
\* session's current room and queues one Welcome with the session's peer_id
\* for the session's own writer; the current room changes with a Join frame
\* only, and an Offer or IceCandidate frame is sent to the current room, the
\* one joined last, and to no other Room.
C23_JoinSetsRoomAndWelcomes ==
    [][\A s \in Sessions :
        /\ \A r \in RoomIds :
            JoinFrame(s, r) =>
                /\ sess'[s].room
                /\ sess'[s].sink = rooms'[r]
                /\ sess'[s].rx =
                       Append(sess[s].rx, Frame("Welcome", sess[s].peer_id))
                /\ \A u \in Sessions \ {s} : sess'[u] = sess[u]
        /\ sess'[s].sink # sess[s].sink => \E r \in RoomIds : JoinFrame(s, r)
        /\ (OfferFrame(s) \/ IceCandidateFrame(s)) =>
            \A k \in Sinks :
                IF k = sess[s].sink /\ SinkAlive(k)
                THEN Len(RxOf(k)') = Len(RxOf(k)) + 1
                ELSE RxOf(k)' = RxOf(k)]_allvars

\* ---------------------------------------------------------------- RoomContext
\* The tasks that hold a clone of the RoomContext: the hooks and what they spawn.
Callers == 1..MaxCallers

\* An entry of ctx_log: the next call, with the map as the call finds it.
\* Calls are numbered in call order and the payload of call n is n.
CtxCall(op, c, p) ==
    [op |-> op, by |-> c, call |-> Len(ctx_log) + 1, peer |-> p, snap |-> peers_data]

\* A channel.send(&data) begun by call n on channel t: st is "pending" until
\* it has run, then "ok" or "err"; pos is the place of its payload among the
\* payloads written to the channel.
SendTask(c, n, kind, t) ==
    [by |-> c, call |-> n, kind |-> kind, ch |-> t, st |-> "pending", pos |-> 0]

\* The number of payloads written to channel t.
Written(t) == Cardinality({k \in ctx_tasks : k.ch = t /\ k.st = "ok"})

\* Caller c is inside RoomContext::send, at peer.send(&data).await.
Busy(c) == \E k \in ctx_tasks : k.kind = "send" /\ k.by = c /\ k.st = "pending"

\* The calls made through a RoomContext and the hooks the Room has called,
\* taken together, stay below MaxCtxInputs.
CanUse == Len(ctx_log) + Len(events) < MaxCtxInputs

\* Callers are numbered in the order of their first call.
MayUse(c) ==
    /\ Len(ctx_log) < MaxCtxCalls
    /\ CanUse
    /\ c > 1 => \E i \in DOMAIN ctx_log : ctx_log[i].by = c - 1

\* RoomContext::send that returns before the channel send has finished.
Send_no_await(c, p) ==
    /\ MayUse(c)
    /\ LET n == Len(ctx_log) + 1
       IN  /\ ctx_log' = Append(ctx_log, CtxCall("send", c, p))
           /\ ctx_tasks' = IF peers_data[p] = NoChannel
                           THEN ctx_tasks
                           ELSE ctx_tasks \cup {SendTask(c, n, "send", peers_data[p])}
    /\ UNCHANGED <<vars, svars, mvars, codec, awaiting>>

\* RoomContext::send up to peer.send(&data).await: without a sink for the
\* peer the call returns at once.
Send(c, p) ==
    /\ MayUse(c)
    /\ ~Busy(c)
    /\ LET n == Len(ctx_log) + 1
       IN  /\ ctx_log' = Append(ctx_log, CtxCall("send", c, p))
           /\ ctx_tasks' = IF peers_data[p] = NoChannel
                           THEN ctx_tasks
                           ELSE ctx_tasks \cup {SendTask(c, n, "send", peers_data[p])}
    /\ UNCHANGED <<vars, svars, mvars, codec, awaiting>>

\* RoomContext::broadcast: the channels in the map are collected and one task
\* is spawned for each; the call returns without waiting for them.
Broadcast(c) ==
    /\ MayUse(c)
    /\ ~Busy(c)
    /\ LET n == Len(ctx_log) + 1
       IN  /\ ctx_log' = Append(ctx_log, CtxCall("broadcast", c, 0))
           /\ ctx_tasks' = ctx_tasks \cup
                  {SendTask(c, n, "broadcast", peers_data[q]) :
                      q \in {u \in Peers : peers_data[u] # NoChannel}}
    /\ UNCHANGED <<vars, svars, mvars, codec, awaiting>>

\* A task after its channel.send(&data) has run
Ran(k, ok) ==
    [k EXCEPT !.st = IF ok THEN "ok" ELSE "err",
              !.pos = IF ok THEN Written(k.ch) + 1 ELSE 0]

\* A channel send whose failure ends the other sends of its call.
ChannelSend_abort_on_error(k, ok) ==
    /\ k \in ctx_tasks
    /\ k.st = "pending"
    /\ ok => conns[k.ch].st = "new"
    /\ ctx_tasks' = IF ok
                    THEN (ctx_tasks \ {k}) \cup {Ran(k, ok)}
                    ELSE {j \in ctx_tasks : j.call # k.call \/ j.st # "pending"}
                            \cup {Ran(k, ok)}
    /\ UNCHANGED <<vars, svars, mvars, ctx_log, codec, awaiting>>

\* channel.send(&data) runs to its end: the payload is written, or the send
\* fails and the error is logged; a closed channel takes no payload.
ChannelSend(k, ok) ==
    /\ k \in ctx_tasks
    /\ k.st = "pending"
    /\ ok => conns[k.ch].st = "new"
    /\ ctx_tasks' = (ctx_tasks \ {k}) \cup {Ran(k, ok)}
    /\ UNCHANGED <<vars, svars, mvars, ctx_log, codec, awaiting>>

\* The Room sets peer p up and handles the DataChannelReady of its transport:
\* p's sink is inserted into the shared map.
Admit(p) ==
    /\ CanUse
    /\ ~HasRecord(p)
    /\ ~Active(p)
    /\ NextTid <= MaxTransports
    /\ p > 1 => (p - 1) \in Named
    /\ LET S1 == handle_join_request(RoomState, p, 0, "ok")
           t == S1.transports[p]
           S2 == [S1 EXCEPT !.conns[t].dc = TRUE]
       IN  Commit(handle_transport_event(S2, DataChannelReady(p, t)))
    /\ UNCHANGED <<command_rx, transport_rx, cmd_open, room_pc, ncmds, nevts,
                   svars, mvars, cvars, codec, awaiting>>

\* The Room handles a Disconnect of peer p: p's sink leaves the shared map
\* and its transport is closed.
Dismiss(p) ==
    /\ CanUse
    /\ HasRecord(p)
    /\ Commit(remove_peer_with_notify(RoomState, p))
    /\ UNCHANGED <<command_rx, transport_rx, cmd_open, room_pc, ncmds, nevts,
                   svars, mvars, cvars, codec, awaiting>>

ContextNext ==
    \/ \E c \in Callers : \E p \in Peers : Send(c, p)
    \/ \E c \in Callers : Broadcast(c)
    \/ \E k \in ctx_tasks : \E ok \in BOOLEAN : ChannelSend(k, ok)
    \/ \E p \in Peers : Admit(p)
    \/ \E p \in Peers : Dismiss(p)

\* The users of a RoomContext next to the Room that writes the shared map.
ContextSpec == Init /\ [][ContextNext]_allvars

\* The payloads written to channel t, in the order written.
Wire(t) ==
    [i \in 1..Written(t) |-> (CHOOSE k \in ctx_tasks : k.ch = t /\ k.pos = i).call]

\* C24: broadcast attempts one send on the sink of every peer that was in the
\* map when the call collected the channels and none on any other channel;
\* a send that fails leaves the other sends of the call as they were, each
\* still to be run and able to deliver while its channel is open; neither the
\* call nor its sends change the shared map.
C24_BroadcastOncePerSink ==
    /\ [](\A i \in DOMAIN ctx_log :
            ctx_log[i].op = "broadcast" =>
                LET S == {ctx_log[i].snap[q] : q \in Peers} \ {NoChannel}
                    T == {k \in ctx_tasks : k.call = i}
                IN  /\ \A k \in T : k.ch \in S /\ k.kind = "broadcast"
                    /\ \A t \in S : Cardinality({k \in T : k.ch = t}) = 1)
    /\ [](\A k \in ctx_tasks :
            (k.st = "pending" /\ conns[k.ch].st = "new") => ENABLED ChannelSend(k, TRUE))
    /\ [][/\ (\E c \in Callers : Broadcast(c)) =>
                UNCHANGED <<peers_data, transports, conns>>
          /\ \A k \in ctx_tasks :
                /\ (\E ok \in BOOLEAN : ChannelSend(k, ok)) =>
                      UNCHANGED <<peers_data, transports, conns>>
                /\ ChannelSend(k, FALSE) =>
                      ctx_tasks' \ {Ran(k, FALSE)} = ctx_tasks \ {k}]_allvars

\* C24 witness: a broadcast found the sinks of two peers; the send to one
\* failed and the send to the other delivered the payload.
C24_Witness ==
    \E i \in DOMAIN ctx_log : \E k1, k2 \in ctx_tasks :
        /\ ctx_log[i].op = "broadcast"
        /\ k1.ch # k2.ch
        /\ {k \in ctx_tasks : k.call = i} = {k1, k2}
        /\ k1.st = "err"
        /\ k2.st = "ok"
        /\ Wire(k2.ch) = <<i>>

\* C25: of two send calls a task issues for the same peer, the payload of the
\* first is written to the peer's channel before the second send is begun,
\* so the payloads a task sends are on a channel in the order of its calls;
\* a send to a peer without a sink begins no channel send and leaves the map,
\* the transports and the channels as they are.
C25_SendsInIssueOrder ==
    /\ [](\A k1, k2 \in ctx_tasks :
            (k1.kind = "send" /\ k2.kind = "send" /\ k1.by = k2.by
                /\ k1.call < k2.call) =>
                /\ k1.st # "pending"
                /\ (k1.ch = k2.ch /\ k1.st = "ok" /\ k2.st = "ok") => k1.pos < k2.pos)
    /\ [](\A i \in DOMAIN ctx_log :
            (ctx_log[i].op = "send" /\ ctx_log[i].snap[ctx_log[i].peer] = NoChannel) =>
                {k \in ctx_tasks : k.call = i} = {})
    /\ [][\A c \in Callers : \A p \in Peers :
            (Send(c, p) /\ peers_data[p] = NoChannel) =>
                UNCHANGED <<transports, peers_data, conns, events, signals, ctx_tasks>>]_allvars

\* C25 witness: one task sent two payloads to a peer, and another task one
\* to a peer without a sink; the channel holds the two payloads in call order.
C25_Witness ==
    \E k1, k2 \in ctx_tasks : \E i \in DOMAIN ctx_log :
        /\ k1.kind = "send" /\ k2.kind = "send"
        /\ k1.by = k2.by
        /\ k1.call < k2.call
        /\ Wire(k1.ch) = <<k1.call, k2.call>>
        /\ ctx_log[i].op = "send"
        /\ ctx_log[i].snap[ctx_log[i].peer] = NoChannel

\* ---------------------------------------------------------------- SignalMessage, JSON
\* String values; an Option is None as <<>> and Some(x) as <<x>>.
Strings == {"", "a", "b"}
Opt(S) == {<<>>} \cup {<<x>> : x \in S}

\* SignalMessage, with the IceServerConfig of IceConfig
SignalMessage ==
    [op : {"IceConfig"},
     ice_servers : UNION {[1..n -> [urls : {<<>>, <<"a">>}, username : Opt({"a"}),
                                    credential : Opt({"b"})]] :
                            n \in 0..MaxIceServers}]
    \cup [op : {"Join"}, room : Strings, token : Opt(Strings)]
    \cup [op : {"Offer"}, sdp : Strings]
    \cup [op : {"Answer"}, sdp : Strings]
    \cup [op : {"IceCandidate"}, candidate : Strings, sdp_mid : Opt(Strings),
          sdp_m_line_index : Opt({0, MaxU16})]
    \cup [op : {"Welcome"}, peer_id : Peers]

\* A JSON value as serde_json writes and reads it: t is "null", "str", "num",
\* "arr" or "obj"
J(t, v) == [t |-> t, v |-> v]

\* Serialize for Option that writes None as an empty string.
ser_option_empty(o, t) == IF o = <<>> THEN J("str", "") ELSE J(t, o[1])

\* Serialize for Option<T>: None is null, Some(x) is x
ser_option(o, t) == IF o = <<>> THEN J("null", 0) ELSE J(t, o[1])

\* Deserialize for Option<T>: a missing field and null are None
de_option(o, name) ==
    IF name \notin DOMAIN o THEN <<>>
    ELSE IF o[name].t = "null" THEN <<>> ELSE <<o[name].v>>

\* serde_json::to_string of a SignalMessage: #[serde(tag = "op", content = "d")];
\* the Uuid of a PeerId is written as its text
to_string(m) ==
    LET d == CASE m.op = "IceConfig" ->
                    [ice_servers |-> J("arr", [i \in DOMAIN m.ice_servers |->
                        J("obj", [urls |-> J("arr", [j \in DOMAIN m.ice_servers[i].urls |->
                                                J("str", m.ice_servers[i].urls[j])]),
                              username |-> ser_option(m.ice_servers[i].username, "str"),
                              credential |-> ser_option(m.ice_servers[i].credential, "str")])])]
               [] m.op = "Join" ->
                    [room |-> J("str", m.room), token |-> ser_option(m.token, "str")]
               [] m.op = "Offer" -> [sdp |-> J("str", m.sdp)]
               [] m.op = "Answer" -> [sdp |-> J("str", m.sdp)]
               [] m.op = "IceCandidate" ->
                    [candidate |-> J("str", m.candidate),
                     sdp_mid |-> ser_option(m.sdp_mid, "str"),
                     sdp_m_line_index |-> ser_option(m.sdp_m_line_index, "num")]
               [] m.op = "Welcome" -> [peer_id |-> J("str", ToString(m.peer_id))]
    IN  J("obj", [op |-> J("str", m.op), d |-> J("obj", d)])

\* serde_json::from_str::<SignalMessage>
from_str(j) ==
    LET op == j.v.op.v
        d == j.v.d.v
    IN  CASE op = "IceConfig" ->
                [op |-> op,
                 ice_servers |-> [i \in DOMAIN d.ice_servers.v |->
                    LET c == d.ice_servers.v[i].v
                    IN  [urls |-> [k \in DOMAIN c.urls.v |-> c.urls.v[k].v],
                         username |-> de_option(c, "username"),
                         credential |-> de_option(c, "credential")]]]
          [] op = "Join" -> [op |-> op, room |-> d.room.v, token |-> de_option(d, "token")]
          [] op = "Offer" -> [op |-> op, sdp |-> d.sdp.v]
          [] op = "Answer" -> [op |-> op, sdp |-> d.sdp.v]
          [] op = "IceCandidate" ->
                [op |-> op, candidate |-> d.candidate.v,
                 sdp_mid |-> de_option(d, "sdp_mid"),
                 sdp_m_line_index |-> de_option(d, "sdp_m_line_index")]
          [] op = "Welcome" ->
                [op |-> op, peer_id |-> CHOOSE p \in Peers : ToString(p) = d.peer_id.v]

\* A SignalMessage is serialised, as send_signal does.
Serialise ==
    \E m \in SignalMessage :
        /\ codec.pc = "idle"
        /\ codec' = [pc |-> "text", msg |-> m, json |-> to_string(m)]
        /\ UNCHANGED <<vars, svars, mvars, cvars, awaiting>>

\* The text is deserialised, as the reader of a socket does.
Deserialise ==
    /\ codec.pc = "text"
    /\ codec' = [pc |-> "read", msg |-> codec.msg, json |-> codec.json,
                 back |-> from_str(codec.json)]
    /\ UNCHANGED <<vars, svars, mvars, cvars, awaiting>>

CodecSpec == Init /\ [][Serialise \/ Deserialise]_allvars

\* C26: a SignalMessage of any variant, with its optional fields present or
\* absent, serialised to the {op, d} envelope and deserialised again, is the
\* same variant with the same field values.
C26_RoundTrip ==
    /\ codec.pc # "idle" =>
        /\ codec.json.v.op = J("str", codec.msg.op)
        /\ DOMAIN codec.json.v = {"op", "d"}
    /\ codec.pc = "read" => codec.back = codec.msg

\* C26 witness: an IceCandidate with sdp_mid absent and sdp_m_line_index
\* present has made the round trip.
C26_Witness ==
    /\ codec.pc = "read"
    /\ codec.msg.op = "IceCandidate"
    /\ codec.msg.sdp_mid = <<>>
    /\ codec.msg.sdp_m_line_index = <<MaxU16>>
    /\ codec.json.v.d.v.sdp_mid.t = "null"
    /\ codec.back.sdp_m_line_index = <<MaxU16>>

\* ---------------------------------------------------------------- hooks and the shared map
\* C27: a hook is the last call of its handler and the Room is the only
\* writer of the map, so the state after the step is the state the hook's
\* RoomContext shows.  At on_join(P) the map holds P's sink, which is the open
\* channel of P's stored transport, so a send to P reaches it; at on_leave(P)
\* the map holds no sink for P, P has no record and the transport of the
\* record that was removed is closed.
C27_HookSeesMap ==
    [][\A i \in DOMAIN NewHooks :
        LET h == NewHooks[i]
            p == h.peer_id
        IN  /\ h.hook = "on_join" =>
                /\ peers_data'[p] # NoChannel
                /\ peers_data'[p] = h.src
                /\ transports'[p] = peers_data'[p]
                /\ conns'[peers_data'[p]].st = "new"
            /\ h.hook = "on_leave" =>
                /\ peers_data'[p] = NoChannel
                /\ transports'[p] = NoTransport
                /\ h.rec # NoTransport => conns'[h.rec].st = "closed"]_vars

\* C28: handling an IceCandidate{P, c}, whether add_ice_candidate takes the
\* candidate or fails, leaves the records, the data-channel map and the hook
\* history as they are and sends nothing to the signalling output: without a
\* record for P nothing changes at all, and with one P's transport stays
\* stored and open, so its DataChannelReady can still come.
C28_IceCandidateChangesNoPeer ==
    [][(CmdRecv /\ Head(command_rx).type = "IceCandidate") =>
        LET t == transports[Head(command_rx).peer_id]
        IN  /\ UNCHANGED <<transports, peers_data, events, signals, room_pc>>
            /\ \A u \in Tids :
                /\ conns'[u].st = conns[u].st
                /\ conns'[u].dc = conns[u].dc
                /\ conns'[u].closes = conns[u].closes
                /\ u # t => conns'[u] = conns[u]]_vars

\* C28 witness: a candidate for P was handled while P was handshaking; P's
\* record is stored, and the DataChannelReady of its transport is queued.
C28_Witness ==
    \E p \in Peers :
        /\ HasRecord(p)
        /\ ~Active(p)
        /\ command_rx = <<>>
        /\ conns[transports[p]].ice # <<>>
        /\ conns[transports[p]].st = "new"
        /\ transport_rx = <<DataChannelReady(p, transports[p])>>

\* C29: a text that is no SignalFrame, an Answer, Welcome or IceConfig sent by
\* the client, and an Offer or IceCandidate read before any Join each enqueue
\* no RoomCommand at any Room, queue no frame for any socket, leave the current
\* room of the session as it is and leave the reader in its loop.
C29_IgnoredFramesChangeNothing ==
    [][\A s \in Sessions :
        (\/ \E kind \in IgnoredKinds \ {"binary"} : IgnoredFrame(s, kind)
         \/ OfferFrame(s) /\ ~sess[s].room
         \/ IceCandidateFrame(s) /\ ~sess[s].room) =>
            /\ UNCHANGED <<command_rx, other_rx, sess, peers, rooms, actors>>
            /\ Reading(s)']_allvars

\* C29 witness: the only socket has read MaxFrames frames, none of them a
\* Join; nothing was enqueued and nothing but the IceConfig was sent to it.
C29_Witness ==
    \E s \in Sessions :
        /\ Opened = 1
        /\ nframes = MaxFrames
        /\ Reading(s)
        /\ ~sess[s].room
        /\ command_rx = <<>>
        /\ other_rx = <<>>
        /\ Frames(s) = IF ice_servers = <<>>
                       THEN <<>>
                       ELSE <<Frame("IceConfig", ice_servers)>>

\* C30: when the Room behind the session's current_room_tx has dropped its
\* command receiver, an Offer enqueues nothing and ends the reader, after which
\* the session runs its select! and removes the peer's entry from the
\* service's map; an IceCandidate enqueues nothing either, and the reader stays
\* in its loop with the session as it was.
C30_SendFailureEndsReaderOnOffer ==
    /\ [][\A s \in Sessions :
            LET dead == sess[s].room /\ ~SinkAlive(sess[s].sink)
            IN  /\ (OfferFrame(s) /\ dead) =>
                    /\ sess' = [sess EXCEPT ![s].reader = "done"]
                    /\ UNCHANGED <<command_rx, other_rx, peers>>
                    /\ sess'[s].pc = "run"
                /\ (IceCandidateFrame(s) /\ dead) =>
                    /\ UNCHANGED <<command_rx, other_rx, peers, sess>>
                    /\ Reading(s)'
                /\ (Finish(s) /\ dead) =>
                    /\ peers'[sess[s].peer_id] = NoSession
                    /\ sess'[s].pc = "done"]_allvars
    /\ \A s \in Sessions :
        (sess[s].reader = "done" /\ sess[s].room /\ ~SinkAlive(sess[s].sink))
            ~> (sess[s].pc = "done")

\* C30 witness: a session joined the first Room and read a second frame after
\* the Room had stopped; its reader ended with nothing enqueued, the session
\* aborted its writer and the peer has no entry in the service's map.
C30_Witness ==
    \E s \in Sessions :
        /\ Opened = 1
        /\ nframes = MaxFrames
        /\ sess[s].room
        /\ sess[s].sink = 1
        /\ ~RoomAlive
        /\ command_rx = <<>>
        /\ sess[s].pc = "done"
        /\ sess[s].reader = "done"
        /\ sess[s].writer = "aborted"
        /\ peers[sess[s].peer_id] = NoSession

\* C31: send_answer or send_ice for a peer that has no writer in the service's
\* map queues the frame nowhere, leaves the map without an entry for the peer,
\* and returns to a Room that is running as before.
C31_SignalToAbsentPeerDropped ==
    [][\A p \in Peers : \A op \in {"Answer", "IceCandidate"} :
        (Signal(p, op) /\ peers[p] = NoSession) =>
            /\ sess' = sess
            /\ peers' = peers
            /\ peers'[p] = NoSession
            /\ UNCHANGED <<room_pc, command_rx, other_rx>>]_allvars

\* C31 witness: the session of the only peer enqueued its JoinRequest and
\* unregistered; the Room's frame for the peer is in no writer's hands.
C31_Witness ==
    /\ nsigs = 1
    /\ \A p \in Peers : peers[p] = NoSession
    /\ \E s \in Sessions :
        /\ Opened = 1
        /\ sess[s].pc = "done"
        /\ sess[s].writer = "aborted"
        /\ \A i \in DOMAIN sess[s].wrote : sess[s].wrote[i].op \in {"IceConfig", "Welcome"}
    /\ \E i \in DOMAIN command_rx : command_rx[i].type = "JoinRequest"

\* C32: the step in which the Room leaves its loop calls no hook, removes no
\* peer and closes no transport, so a peer that is active then has had no
\* on_leave; once the loop is left no hook is called and nothing is signalled,
\* the events still queued stay unreceived, and an event a transport sends
\* afterwards is not queued.
C32_NoHooksOnShutdown ==
    /\ [][room_pc' = "finished" =>
            /\ UNCHANGED <<events, signals, peers_data, transports, transport_rx>>
            /\ \A t \in Tids : conns'[t].st = conns[t].st]_allvars
    /\ [](room_pc = "finished" => ~ENABLED RecvTransportEvent)

\* C32 witness: the Room has left its loop with an active peer that has had no
\* on_leave and with an event still queued, and a candidate its transport
\* generated afterwards was neither queued nor signalled.
C32_Witness ==
    \E p \in Peers :
        /\ room_pc = "finished"
        /\ Active(p)
        /\ HasRecord(p)
        /\ NumJoins(p) = 1
        /\ NumLeaves(p) = 0
        /\ transport_rx # <<>>
        /\ conns[transports[p]].cands = 1
        /\ \A i \in DOMAIN transport_rx : transport_rx[i].type # "CandidateGenerated"
        /\ \A i \in DOMAIN signals : signals[i].type # "Ice"

\* ---------------------------------------------------------------- hooks as calls
\* Room::run with each hook call as two steps: the handler runs up to the call
\* of the hook, which is the last thing each handler does, and the hook
\* returns.  awaiting holds the positions in events of the calls begun and not
\* returned.

\* The hook calls a handler that takes the Room from events to S.events begins.
Begun(S) == [i \in 1..(Len(S.events) - Len(events)) |-> Len(events) + i]

\* The DataChannelReady, Message and Disconnected arms with the hook spawned
\* as a task instead of awaited.
AwaitTransportEvent_not_awaited ==
    /\ room_pc = "running"
    /\ transport_rx # <<>>
    /\ LET S == handle_transport_event(RoomState, Head(transport_rx))
       IN  /\ Commit(S)
           /\ awaiting' = awaiting \o Begun(S)
    /\ transport_rx' = Tail(transport_rx)
    /\ UNCHANGED <<command_rx, cmd_open, room_pc, ncmds, nevts,
                   svars, mvars, cvars, codec>>

\* select! arm transport_rx.recv() => Some(e), up to the .await of the hook
AwaitTransportEvent ==
    /\ room_pc = "running"
    /\ awaiting = <<>>
    /\ transport_rx # <<>>
    /\ LET S == handle_transport_event(RoomState, Head(transport_rx))
       IN  /\ Commit(S)
           /\ awaiting' = awaiting \o Begun(S)
    /\ transport_rx' = Tail(transport_rx)
    /\ UNCHANGED <<command_rx, cmd_open, room_pc, ncmds, nevts,
                   svars, mvars, cvars, codec>>

\* select! arm command_rx.recv() => Some(c), up to the .await of the hook
AwaitCommand ==
    /\ room_pc = "running"
    /\ awaiting = <<>>
    /\ command_rx # <<>>
    /\ \E outcome \in JoinOutcomes \cup IceOutcomes :
        /\ Head(command_rx).type = "JoinRequest" => outcome \in JoinOutcomes
        /\ Head(command_rx).type = "IceCandidate" => outcome \in IceOutcomes
        /\ Head(command_rx).type = "Disconnect" => outcome = "ok"
        /\ LET S == handle_command(RoomState, Head(command_rx), outcome)
           IN  /\ Commit(S)
               /\ awaiting' = awaiting \o Begun(S)
    /\ command_rx' = Tail(command_rx)
    /\ UNCHANGED <<transport_rx, cmd_open, room_pc, ncmds, nevts,
                   svars, mvars, cvars, codec>>

\* The future of a hook completes and its handler returns to the loop.
HookReturns ==
    /\ awaiting # <<>>
    /\ awaiting' = Tail(awaiting)
    /\ UNCHANGED <<vars, svars, mvars, cvars, codec>>

HookNext ==
    \/ Feed
    \/ CloseCommandChannel
    \/ AwaitCommand
    \/ AwaitTransportEvent
    \/ HookReturns
    \/ awaiting = <<>> /\ RecvCommandClosed

HookSpec == Init /\ [][HookNext]_allvars

\* C33: at most one hook call of the Room is running at any time, and while
\* one is running the Room takes nothing from its command channel or its
\* event channel, changes neither map, closes no transport, begins no other
\* hook, signals nothing and does not leave its loop: commands and events
\* that arrive meanwhile wait in their channels.
C33_OneHookAtATime ==
    /\ [](Len(awaiting) <= 1)
    /\ [](\A i \in DOMAIN awaiting : awaiting[i] = Len(events))
    /\ [][awaiting # <<>> =>
            /\ UNCHANGED <<events, signals, transports, peers_data, room_pc>>
            /\ \A t \in Tids : conns'[t].st = conns[t].st
            /\ \E k \in 0..1 : command_rx' = command_rx \o SubSeq(command_rx', Len(command_rx) + 1, Len(command_rx) + k)
            /\ \E k \in 0..1 : transport_rx' = transport_rx \o SubSeq(transport_rx', Len(transport_rx) + 1, Len(transport_rx) + k)]_allvars

\* C33 witness: an on_join call is running while a command and an event wait
\* in their channels.
C33_Witness ==
    /\ awaiting # <<>>
    /\ events[Head(awaiting)].hook = "on_join"
    /\ command_rx # <<>>
    /\ transport_rx # <<>>

\* C34: a record stored for P is removed, and its transport closed, only by a
\* JoinRequest of P that replaces it, by a Disconnect command of P, or by the
\* Disconnected event of the record's own transport; the Disconnected event of
\* a transport that is no longer stored for P leaves P's record, its sink and
\* the hook history as they are.
C34_StaleDisconnectedIgnored ==
    [][\A p \in Peers :
        /\ (HasRecord(p) /\ transports'[p] # transports[p]) =>
                \/ CmdStep("JoinRequest", p)
                \/ CmdStep("Disconnect", p)
                \/ EvtStep("Disconnected", p) /\ Head(transport_rx).src = transports[p]
        /\ (EvtStep("Disconnected", p) /\ Head(transport_rx).src # transports[p]) =>
                /\ UNCHANGED <<transports, peers_data, events>>
                /\ \A t \in Tids : conns'[t].st = conns[t].st]_vars

\* C35: in every state of the Room a peer whose sink is in the shared map has
\* a transport stored, the sink is the channel of that transport, and that
\* transport has not been closed.
C35_SinkBelongsToStoredTransport ==
    \A p \in Peers :
        Active(p) =>
            /\ HasRecord(p)
            /\ peers_data[p] = transports[p]
            /\ conns[peers_data[p]].st = "new"

\* C36: when the Room forwards a candidate that a transport generated, the
\* Answer of the JoinRequest that created this transport has already been
\* passed to the signalling output; the step passes the candidate and
\* nothing else.
C36_AnswerBeforeCandidates ==
    [][\A p \in Peers :
        EvtStep("CandidateGenerated", p) =>
            LET e == Head(transport_rx)
            IN  /\ \E i \in DOMAIN signals :
                        signals[i] = [type |-> "Answer", peer_id |-> p,
                                      body |-> AnswerSdp(e.src)]
                /\ NewSignals = <<[type |-> "Ice", peer_id |-> p, body |-> e.data]>>]_vars

\* C36 witness: the second thing signalled for a peer, after the Answer of its
\* JoinRequest, is the first candidate of the transport of that JoinRequest.
C36_Witness ==
    \E p \in Peers :
        /\ HasRecord(p)
        /\ conns[transports[p]].cands = 1
        /\ signals = <<[type |-> "Answer", peer_id |-> p, body |-> AnswerSdp(transports[p])],
                       [type |-> "Ice", peer_id |-> p, body |-> 1]>>

\* ---------------------------------------------------------------- sessions and Room
\* The sessions together with the first Room the RoomManager spawned, which
\* receives the commands the sessions enqueue and the Disconnected events of
\* its transports.
JointNext ==
    \/ Connect
    \/ RecvJoin
    \/ RecvOffer
    \/ ReaderEnds
    \/ FinishSession
    \/ RecvCommand
    \/ EmitDisconnected
    \/ RecvTransportEvent

JointSpec == Init /\ [][JointNext]_allvars

\* C37: while the latest session of peer P is in its reader loop, the record
\* that the Room set up from this session's Offer is not removed and its
\* transport is not closed by a Disconnect{P}, which can only come from an
\* earlier session of P that has terminated.
C37_OldDisconnectSparesNewRecord ==
    [][\A p \in Peers : \A s \in Sessions :
        (/\ CmdStep("Disconnect", p)
         /\ HasRecord(p)
         /\ conns[transports[p]].offer = s
         /\ sess[s].peer_id = p
         /\ Reading(s)
         /\ \A u \in Sessions : sess[u].peer_id = p => u <= s) =>
            /\ transports'[p] = transports[p]
            /\ conns'[transports[p]].st = "new"]_allvars

\* C38: a session whose current room is no longer the first Room enqueues
\* nothing at the first Room, neither with its frames nor when its reader
\* ends: the Disconnect of its termination goes to the Room of its latest
\* Join only.  If it is the only session there has been and the first Room
\* accepted one Offer from it, the record set up from that Offer stays stored
\* once the Room has handled what the session enqueued before it moved on,
\* until the Disconnected event of the record's transport is handled.
C38_DisconnectOnlyToLatestRoom ==
    [][\A s \in Sessions :
        LET p == sess[s].peer_id
        IN  /\ (sess[s].sink > 1 /\ sess'[s].sink = sess[s].sink /\ sess'[s] # sess[s]) =>
                    command_rx' = command_rx
            /\ (sess[s].sink > 1 /\ (OfferFrame(s) \/ IceCandidateFrame(s))) =>
                    command_rx' = command_rx
            /\ (sess[s].sink > 1 /\ Reading(s) /\ sess'[s].reader = "done") =>
                    /\ RxOf(sess[s].sink)' = Append(RxOf(sess[s].sink), Disconnect(p))
                    /\ \A k \in Sinks \ {sess[s].sink} : RxOf(k)' = RxOf(k)
            /\ (/\ Opened = 1
                /\ sess[s].sink > 1
                /\ command_rx = <<>>
                /\ HasRecord(p)
                /\ Created = {transports[p]}
                /\ transports'[p] # transports[p]) =>
                    /\ EvtStep("Disconnected", p)
                    /\ Head(transport_rx).src = transports[p]]_allvars

\* C38 witness: the only session joined the first Room, had its Offer
\* accepted there, joined a second Room and terminated; its Disconnect is in
\* the second Room's channel, and the first Room, with nothing left to
\* receive, still stores the peer's record.
C38_Witness ==
    \E s \in Sessions :
        /\ Opened = 1
        /\ sess[s].pc = "done"
        /\ sess[s].sink = 2
        /\ RxOf(2) = <<Disconnect(sess[s].peer_id)>>
        /\ command_rx = <<>>
        /\ transport_rx = <<>>
        /\ HasRecord(sess[s].peer_id)
        /\ conns[transports[sess[s].peer_id]].offer = s
        /\ conns[transports[sess[s].peer_id]].st = "new"

\* C39: of two broadcast calls one task issues, for every peer whose sink both
\* calls found in the map, the payload of the first call is written to the
\* peer's channel before the payload of the second.
C39_BroadcastsInIssueOrder ==
    \A i, j \in DOMAIN ctx_log : \A q \in Peers :
        (/\ i < j
         /\ ctx_log[i].op = "broadcast"
         /\ ctx_log[j].op = "broadcast"
         /\ ctx_log[i].by = ctx_log[j].by
         /\ ctx_log[i].snap[q] # NoChannel
         /\ ctx_log[j].snap[q] # NoChannel) =>
            \A k1, k2 \in ctx_tasks :
                (/\ k1.call = i /\ k1.ch = ctx_log[i].snap[q]
                 /\ k2.call = j /\ k2.ch = ctx_log[j].snap[q]
                 /\ k2.st = "ok") =>
                    /\ k1.st # "pending"
                    /\ (k1.ch = k2.ch /\ k1.st = "ok") => k1.pos < k2.pos

\* C40: while the Room runs, a transport that is stored for a peer is open and
\* has had no close(); a transport the Room stored and no longer stores has
\* had close() exactly once, in the step that removed or replaced its record;
\* a transport is stored for the peer it was created for and for no other.
C40_CloseOnceAtRemoval ==
    /\ [](\A t \in Created :
            LET Holders == {p \in Peers : transports[p] = t}
            IN  /\ Holders \subseteq {conns[t].peer_id}
                /\ Holders # {} => conns[t].st = "new" /\ conns[t].closes = 0
                /\ Holders = {} => conns[t].st = "closed" /\ conns[t].closes = 1)
    /\ [][\A t \in Tids :
            conns'[t].closes # conns[t].closes =>
                LET p == conns[t].peer_id
                IN  /\ transports[p] = t
                    /\ transports'[p] # t
                    /\ conns'[t].closes = 1
                    /\ \/ CmdStep("JoinRequest", p)
                       \/ CmdStep("Disconnect", p)
                       \/ EvtStep("Disconnected", p)]_vars

\* C40 witness: a peer's first transport was closed once when a JoinRequest
\* replaced it, and the second once when the peer's record was removed.
C40_Witness ==
    \E p \in Peers :
        /\ ~HasRecord(p)
        /\ \A t \in 1..2 : conns[t].peer_id = p /\ conns[t].closes = 1
====
